---- MODULE Spec2Model ----
(***************************************************************************)
(* Flight_Scanner_TS: the scan orchestrator (scanner/runner.py), the       *)
(* SQLite price ledger and notified-deal table (scanner/storage.py), the   *)
(* deal detector (scanner/deal_detector.py, scanner/models.py) and the     *)
(* provider clients (scanner/providers/travelpayouts.py, amadeus.py).      *)
(*                                                                         *)
(* Spec        one ScannerRunner.run(): scan cycles with their fan-out of  *)
(*             scan tasks behind the semaphore, the ledger writes, deal    *)
(*             detection and the notification loop.  A provider search is  *)
(*             one step that returns a list of offers.  SpecCap is the     *)
(*             same run started also under max_price = 0.                  *)
(* SpecClient  the provider client's search_flights as a state machine of  *)
(*             concurrent callers, with a clock in ticks of 0.125 s; a     *)
(*             sleep ends exactly when its duration has passed.            *)
(* SpecUnit    direct calls of the store's statistics, of detect_deals and *)
(*             of the Deal constructor, for several configurations.        *)
(* SpecEndToEnd  observations recorded one after another, then detection.  *)
(* SpecDedup   direct calls of mark_deal_as_notified and is_deal_notified. *)
(* SpecDates   _generate_date_pairs for configurations read unvalidated    *)
(*             from config.yaml; SpecDatesFair adds that a call runs on.   *)
(* SpecRun     run() under a configuration with which a cycle raises;      *)
(*             SpecRunFair adds that ready tasks run and sleeps end.       *)
(* SpecParse   _parse_flights on one provider response.                    *)
(* SpecLedger  store_price calls in any order, and the aggregate queries.  *)
(* SpecDetect  detect_deals on lists of flights.                           *)
(* SpecCycle   the fan-out of one scan_cycle with search_flights called by *)
(*             each scan task, without the clock; SpecCycleFair adds that  *)
(*             ready tasks run, sleeps end and requests are answered.      *)
(*                                                                         *)
(* Money is a whole number of euros; a median is kept as the exact         *)
(* fraction <<numerator, denominator>>, so comparisons are those of the    *)
(* real numbers the floating-point code approximates.                      *)
(***************************************************************************)
EXTENDS Integers, Sequences, FiniteSets, Bags, TLC

VARIABLES
    \* ---- ScannerRunner.run / scan_cycle
    running,          \* ScannerRunner._running
    phase,            \* where run() is: idle, loop, scan, detect, notify, interval, stopped
    width,            \* config.max_concurrent_requests
    semaphore,        \* free slots of the cycle's asyncio.Semaphore
    tpc,              \* per scan task: wait, route, store, commit, pace, done
    tflights,         \* per scan task: round_trip_flights of scan_route
    ti,               \* per scan task: index of the flight being stored
    traised,          \* per scan task: scan_route took its except branch
    tlost,            \* per scan task: indexes of the flights whose store_price failed
    tdropped,         \* per scan task: the flights of the provider's answer scan_route left out
    tcapped,          \* per scan task: the offers of this cycle _parse_flights left out (price)
    toverlap,         \* the tasks that took part in a concurrent insert of one key
    all_flights,      \* scan_cycle's all_flights
    deals,            \* the deals detect_deals has built so far
    di,               \* detect_deals: index of the flight under evaluation
    ni,               \* notification loop: index of the deal
    npc,              \* notification loop: check, send, mark
    \* ---- Storage (SQLite)
    price_history,    \* bag of rows of table price_history
    notified_deals,   \* rows of table notified_deals
    dbWriter,         \* the task whose connection holds SQLite's write lock, or 0
    \* ---- observation of the run
    sent,             \* per fingerprint: successful Notifier sends, counted up to MaxSent
    lastSend,         \* answer of the send_notification just made: none, ok, failed
    failed,           \* the fingerprints of which a send has failed
    caught,           \* run() took its except branch and the sleep after it has not ended
    cleanups,         \* the calls of cleanup() made by run()
    \* ---- a provider client and the concurrent callers of its search_flights
    provider,         \* the class of the client: travelpayouts or amadeus
    now,              \* the event loop's clock, in ticks of 0.125 s
    cpc,              \* per caller: where it is in search_flights
    attempt,          \* per caller: the retry loop's attempt
    wake,             \* per caller: when its asyncio.sleep ends (0 when not asleep)
    lockHolder,       \* the caller inside _request_lock, or 0
    lockWaiters,      \* the callers waiting for _request_lock, in order
    last_request_time,      \* _last_request_time
    rate_limit_remaining,   \* _rate_limit_remaining
    token,            \* AmadeusFlightProvider.token: 0 is None
    requests,         \* the GET requests sent: per caller their number, how many
                      \* followed a 401, the time of the latest; and whether two
                      \* of them were ever closer than min_delay
    reauth,           \* per caller: _authenticate calls made after a 401
    coutcome,         \* per caller: how its last provider exchange ended
    cresult,          \* per caller: what search_flights returned
    \* ---- the detector and the store called directly, as the tests call them
    cfg,              \* the ScannerConfig the DealDetector was built with
    answer_len,       \* the provider of the run answers a call with at most this many offers
    ncalls,           \* store_price calls the end-to-end scenario has made
    marked,           \* the flights a direct call of mark_deal_as_notified was made for
    recorded,         \* the flights a direct call of store_price has stored
    probe,            \* the call made last, its arguments and what it returned
    gen               \* _generate_date_pairs: its locals, where it is, its previous result

ovars == <<running, phase, width, semaphore, tpc, tflights, ti, traised, tlost, tdropped,
           tcapped,
           toverlap, all_flights, deals, di, ni, npc, price_history, notified_deals,
           dbWriter, sent, lastSend, failed, caught, cleanups>>

cvars == <<provider, now, cpc, attempt, wake, lockHolder, lockWaiters,
           last_request_time, rate_limit_remaining, token, requests, reauth,
           coutcome, cresult>>

uvars == <<cfg, answer_len, ncalls, marked, recorded, probe, gen>>

vars == <<ovars, cvars, uvars>>

----------------------------------------------------------------------------
(* Bounds of the model *)

\* number of date pairs of a cycle, hence of scan tasks (one origin, one destination)
NumDatePairs == 2
\* the counters of successful sends stop counting here
MaxSent == 2
\* concurrent callers of search_flights
NumCallers == 2
\* the clock may run idle up to this tick (later it jumps from sleep end to sleep end)
MaxIdle == 2
\* the observations the end-to-end scenario records before it runs detection
NumObservations == 10
\* the flights marked as notified by direct calls in one run
MaxMarked == 2
\* the date pairs a list can hold before the interpreter runs out of memory
MaxPairs == 200
\* the calls of _generate_date_pairs in one run
MaxGenCalls == 2
\* the offers of one provider response
MaxOffers == 2
\* the flights of a list given to detect_deals
MaxListLen == 2

----------------------------------------------------------------------------
(* Configuration: scanner/config.py, with values small enough to be reached *)

Date(y, m, d) == [year |-> y, month |-> m, day |-> d]

config ==
    [ origins |-> <<"CDG">>,
      destinations |-> <<"LON">>,
      max_price |-> 200,
      discount_threshold_pct |-> 50,     \* discount_threshold * 100
      min_observations |-> 2 ]

\* the exempt long-haul set the detector and scan_route read as config.asia_destinations
asia_destinations == {"BKK", "SIN", "HKG", "NRT"}

\* the date pairs of a cycle: all in June 2024, so that every task asks the
\* provider for the same month
date_pairs == [i \in 1..NumDatePairs |-> <<Date(2024, 6, 10 + i), Date(2024, 6, 17 + i)>>]

----------------------------------------------------------------------------
(* scanner/models.py: Flight *)

\* an absent date (return_date = None)
NoDate == Date(0, 0, 0)

Flight(o, d, dep, ret, p, a, stop) ==
    [ origin |-> o, destination |-> d, departure_date |-> dep, return_date |-> ret,
      price |-> p, airline |-> a, has_stopover |-> stop, currency |-> "EUR",
      departure_time |-> "None", booking_url |-> "None" ]

\* a test that takes every flight for a round trip
is_any_trip(f) == TRUE

\* Flight.is_round_trip: self.return_date is not None
is_round_trip(f) == f.return_date # NoDate

\* two decimal digits, as date.isoformat() writes a month or a day
Pad2(n) == IF n < 10 THEN "0" \o ToString(n) ELSE ToString(n)

\* date.isoformat(), which is also str(date): YYYY-MM-DD
isoformat(d) == ToString(d.year) \o "-" \o Pad2(d.month) \o "-" \o Pad2(d.day)

\* str() of a float that is a whole number of euros: 100.0
FloatStr(p) == ToString(p) \o ".0"

\* a key whose format leaves the airline out
KeyWithoutAirline(f) ==
    LET return_date_str == IF f.return_date # NoDate THEN isoformat(f.return_date) ELSE "oneway"
    IN  f.origin \o "_" \o f.destination \o "_" \o isoformat(f.departure_date) \o "_"
          \o return_date_str \o "_" \o FloatStr(f.price)

\* the f-string of Flight.to_hash
Key(f) ==
    LET return_date_str == IF f.return_date # NoDate THEN isoformat(f.return_date) ELSE "oneway"
    IN  f.origin \o "_" \o f.destination \o "_" \o isoformat(f.departure_date) \o "_"
          \o return_date_str \o "_" \o FloatStr(f.price) \o "_" \o f.airline

\* hashlib.md5(key.encode()).hexdigest(): the digest stands for the key it was
\* computed from (no two keys of the model are taken to collide under MD5)
md5(key) == <<"md5", key>>

\* Flight.to_hash
to_hash(f) == md5(Key(f))

\* the offers the provider may hold for a route: a cheap round trip, two usual
\* ones (so that the median of the route can move between cycles) and a cheap
\* one-way, all departing on the same day
Offers(o, d) ==
    { Flight(o, d, Date(2024, 6, 15), Date(2024, 6, 22),  60, "AF", FALSE),
      Flight(o, d, Date(2024, 6, 15), Date(2024, 6, 22), 200, "AF", FALSE),
      Flight(o, d, Date(2024, 6, 15), Date(2024, 6, 22), 180, "AF", FALSE),
      Flight(o, d, Date(2024, 6, 15), NoDate,             40, "AF", FALSE) }

\* the lists of at most n offers one provider call may return: none, one, the
\* cheap round trip followed by a usual one, or a round trip above
\* config.max_price followed by the cheap one
Responses(o, d, n) ==
    {<<>>} \cup { <<f>> : f \in Offers(o, d) }
        \cup IF n < 2 THEN {}
             ELSE { << Flight(o, d, Date(2024, 6, 15), Date(2024, 6, 22),  60, "AF", FALSE),
                       Flight(o, d, Date(2024, 6, 15), Date(2024, 6, 22), 200, "AF", FALSE) >>,
                    << Flight(o, d, Date(2024, 6, 15), Date(2024, 6, 22), 250, "AF", FALSE),
                       Flight(o, d, Date(2024, 6, 15), Date(2024, 6, 22),  60, "AF", FALSE) >> }

\* the scan tasks of a cycle, in the order scan_cycle creates them
tasks ==
    LET nD == Len(config.destinations)
        nP == Len(date_pairs)
    IN  [ k \in 1..(Len(config.origins) * nD * nP) |->
            [ origin |-> config.origins[((k - 1) \div (nD * nP)) + 1],
              destination |-> config.destinations[(((k - 1) \div nP) % nD) + 1],
              departure_date |-> date_pairs[((k - 1) % nP) + 1][1],
              return_date |-> date_pairs[((k - 1) % nP) + 1][2] ] ]

TaskIds == DOMAIN tasks

----------------------------------------------------------------------------
(* scanner/storage.py *)

\* the row store_price inserts for a flight
Row(f) ==
    [ origin |-> f.origin, destination |-> f.destination,
      departure_date |-> f.departure_date,
      departure_month |-> f.departure_date.month,
      departure_year |-> f.departure_date.year,
      price |-> f.price, airline |-> f.airline, currency |-> f.currency ]

\* a constraint on the route and the day alone
UniqueDay(r) == <<r.origin, r.destination, r.departure_date>>

\* UNIQUE(origin, destination, departure_date, price, airline)
UniqueKey(r) == <<r.origin, r.destination, r.departure_date, r.price, r.airline>>

\* a plain INSERT that adds the row whatever the table holds
InsertAlways(ph, r) == ph (+) SetToBag({r})

\* INSERT OR IGNORE INTO price_history
InsertOrIgnore(ph, r) ==
    IF \E x \in BagToSet(ph) : UniqueKey(x) = UniqueKey(r)
    THEN ph
    ELSE ph (+) SetToBag({r})

\* no month or year given to a query (None)
NoFilter == 0

\* a WHERE clause that falls back to the whole route when no row of the month
\* and year matches
MatchingWidened(ph, o, d, month, year) ==
    LET route == { r \in BagToSet(ph) : r.origin = o /\ r.destination = d }
        hit == { r \in route :
                   /\ (month # NoFilter => r.departure_month = month)
                   /\ (year # NoFilter => r.departure_year = year) }
    IN  [ r \in (IF hit = {} THEN route ELSE hit) |-> ph[r] ]

\* WHERE origin = ? AND destination = ? [AND departure_month = ?] [AND departure_year = ?]
Matching(ph, o, d, month, year) ==
    LET hit == { r \in BagToSet(ph) :
                   /\ r.origin = o
                   /\ r.destination = d
                   /\ (month # NoFilter => r.departure_month = month)
                   /\ (year # NoFilter => r.departure_year = year) }
    IN  [ r \in hit |-> ph[r] ]

\* the prices of a bag of rows, ORDER BY price
RECURSIVE OrderByPrice(_)
OrderByPrice(b) ==
    IF BagToSet(b) = {}
    THEN <<>>
    ELSE LET r == CHOOSE x \in BagToSet(b) : \A y \in BagToSet(b) : x.price <= y.price
         IN  <<r.price>> \o OrderByPrice(b (-) SetToBag({r}))

\* an absent price (None)
NoPrice == <<0, 0>>

get_observations_count(ph, o, d, month, year) ==
    BagCardinality(Matching(ph, o, d, month, year))

\* a median that takes the upper of the two central values for an even count
get_median_upper(ph, o, d, month, year) ==
    LET prices == OrderByPrice(Matching(ph, o, d, month, year))
        n == Len(prices)
    IN  IF n = 0 THEN NoPrice ELSE <<prices[(n \div 2) + 1], 1>>

get_median_price(ph, o, d, month, year) ==
    LET prices == OrderByPrice(Matching(ph, o, d, month, year))
        n == Len(prices)
    IN  IF n = 0 THEN NoPrice
        ELSE IF n % 2 = 0
             THEN <<prices[n \div 2] + prices[(n \div 2) + 1], 2>>
             ELSE <<prices[(n \div 2) + 1], 1>>

\* SELECT AVG(price), COUNT(*): the average as the exact fraction <<sum, count>>,
\* None when no row matches
get_average_price(ph, o, d, month, year) ==
    LET prices == OrderByPrice(Matching(ph, o, d, month, year))
        RECURSIVE Sum(_)
        Sum(k) == IF k = 0 THEN 0 ELSE Sum(k - 1) + prices[k]
    IN  IF Len(prices) = 0 THEN NoPrice ELSE <<Sum(Len(prices)), Len(prices)>>

is_deal_notified(nd, flight_hash) == \E r \in nd : r.flight_hash = flight_hash

NotifiedRow(f, usual_price, discount_percentage) ==
    [ flight_hash |-> to_hash(f), origin |-> f.origin, destination |-> f.destination,
      departure_date |-> f.departure_date, price |-> f.price,
      usual_price |-> usual_price, discount_percentage |-> discount_percentage ]

\* an INSERT into a table whose flight_hash is no key: the stored row stays
mark_insert(nd, f, usual_price, discount_percentage) ==
    nd \cup { NotifiedRow(f, usual_price, discount_percentage) }

\* INSERT OR REPLACE INTO notified_deals
mark_deal_as_notified(nd, f, usual_price, discount_percentage) ==
    { r \in nd : r.flight_hash # to_hash(f) }
        \cup { NotifiedRow(f, usual_price, discount_percentage) }

----------------------------------------------------------------------------
(* scanner/models.py: Deal, and scanner/deal_detector.py *)

\* Deal._is_asia_destination: the codes written in models.py
asia_codes ==
    { "BKK", "SIN", "HKG", "NRT", "HND", "ICN", "PEK", "PVG", "CAN", "KUL",
      "MNL", "JKT", "HAN", "SGN", "BOM", "DEL", "BLR", "MAA", "DPS", "CGK",
      "TPE", "KHH", "OKA", "FUK", "KIX", "NGO", "CTS", "GMP", "PUS", "CJU",
      "BJS", "SHA", "CTU", "XIY", "KMG", "XMN", "SZX", "DLC", "TSN",
      "CCU", "HYD", "COK", "CCJ", "TRV", "GAU", "AMD", "PNQ", "IXC", "LKO",
      "VNS", "PAT", "RPR", "IDR", "JAI", "UDR", "BDQ", "RAJ", "BHO", "GAY",
      "BBI", "VTZ", "IXZ", "IXE", "HBX", "IXU", "NAG", "JLR", "RJA", "TIR",
      "VGA", "BZA", "CJB", "IXM", "IXJ", "IXL", "IXP", "IXR", "IXS", "IXW",
      "JDH", "JGB", "JRH", "JSA", "JSH", "JSR", "JTR", "JUB", "JUI" }

\* fraction q >= whole number k, for a positive denominator
FracGE(q, k) == q[1] >= k * q[2]

\* (1 - price / usual_price) * 100, for usual_price = <<n, d>> with n > 0
DiscountPercentage(price, usual_price) ==
    <<100 * (usual_price[1] - price * usual_price[2]), usual_price[1]>>

\* Deal.__post_init__: the two assertions
DealPostInit(f, discount_percentage) ==
    /\ FracGE(discount_percentage, 50)
    /\ (~(f.destination \in asia_codes /\ f.has_stopover) => f.price <= 200)

\* no call made yet
NoProbe == [op |-> "none"]

\* _generate_date_pairs not called
NoGen == [pc |-> "idle"]

\* the detector and the store before any direct call
UnitInit ==
    /\ ncalls = 0
    /\ marked = {}
    /\ recorded = {}
    /\ gen = NoGen
    /\ probe = NoProbe

\* detect_deals with the median of the whole route as the usual price, whatever
\* the month and the year of the flight
DetectOneUnscoped(ph, f, countFails, medianFails, fallbackFails) ==
    LET month == f.departure_date.month
        year == f.departure_date.year
        is_asia_with_stopover == f.destination \in asia_destinations /\ f.has_stopover
        observations == IF countFails THEN 0
                        ELSE get_observations_count(ph, f.origin, f.destination, month, year)
        usual_price == IF fallbackFails THEN NoPrice
                       ELSE get_median_price(ph, f.origin, f.destination, NoFilter, NoFilter)
        skip == [kind |-> "skip"]
    IN  IF ~is_round_trip(f) THEN skip
        ELSE IF ~is_asia_with_stopover /\ f.price > cfg.max_price THEN skip
        ELSE IF observations < cfg.min_observations THEN skip
        ELSE IF usual_price = NoPrice THEN skip
        ELSE IF usual_price[1] = 0 THEN [kind |-> "raise"]
        ELSE LET discount_percentage == DiscountPercentage(f.price, usual_price)
             IN  IF ~FracGE(discount_percentage, cfg.discount_threshold_pct) THEN skip
                 ELSE IF ~DealPostInit(f, discount_percentage) THEN [kind |-> "raise"]
                 ELSE [ kind |-> "deal",
                        deal |-> [ flight |-> f, usual_price |-> usual_price,
                                   discount_percentage |-> discount_percentage,
                                   observations_count |-> observations ] ]

\* detect_deals without its comparison against config.discount_threshold: every
\* flight that passes the cap and the history check goes to the Deal constructor
DetectOneNoThreshold(ph, f, countFails, medianFails, fallbackFails) ==
    LET month == f.departure_date.month
        year == f.departure_date.year
        is_asia_with_stopover == f.destination \in asia_destinations /\ f.has_stopover
        observations == IF countFails THEN 0
                        ELSE get_observations_count(ph, f.origin, f.destination, month, year)
        scoped == IF medianFails THEN NoPrice
                  ELSE get_median_price(ph, f.origin, f.destination, month, year)
        usual_price == IF scoped # NoPrice THEN scoped
                       ELSE IF fallbackFails THEN NoPrice
                       ELSE get_median_price(ph, f.origin, f.destination, NoFilter, NoFilter)
        skip == [kind |-> "skip"]
    IN  IF ~is_round_trip(f) THEN skip
        ELSE IF ~is_asia_with_stopover /\ f.price > cfg.max_price THEN skip
        ELSE IF observations < cfg.min_observations THEN skip
        ELSE IF usual_price = NoPrice THEN skip
        ELSE IF usual_price[1] = 0 THEN [kind |-> "raise"]
        ELSE LET discount_percentage == DiscountPercentage(f.price, usual_price)
             IN  IF ~DealPostInit(f, discount_percentage) THEN [kind |-> "raise"]
                 ELSE [ kind |-> "deal",
                        deal |-> [ flight |-> f, usual_price |-> usual_price,
                                   discount_percentage |-> discount_percentage,
                                   observations_count |-> observations ] ]

\* one iteration of detect_deals' loop on flight f against ledger ph.  countFails,
\* medianFails and fallbackFails say which of the three storage reads take their
\* except branch (get_observations_count returns 0, get_median_price returns None).
\* The result is "skip", "deal" (with the Deal) or "raise" (a division by a zero
\* median, or an assertion of Deal.__post_init__).
DetectOne(ph, f, countFails, medianFails, fallbackFails) ==
    LET month == f.departure_date.month
        year == f.departure_date.year
        is_asia_with_stopover == f.destination \in asia_destinations /\ f.has_stopover
        observations == IF countFails THEN 0
                        ELSE get_observations_count(ph, f.origin, f.destination, month, year)
        scoped == IF medianFails THEN NoPrice
                  ELSE get_median_price(ph, f.origin, f.destination, month, year)
        usual_price == IF scoped # NoPrice THEN scoped
                       ELSE IF fallbackFails THEN NoPrice
                       ELSE get_median_price(ph, f.origin, f.destination, NoFilter, NoFilter)
        skip == [kind |-> "skip"]
    IN  IF ~is_round_trip(f) THEN skip
        ELSE IF ~is_asia_with_stopover /\ f.price > cfg.max_price THEN skip
        ELSE IF observations < cfg.min_observations THEN skip
        ELSE IF usual_price = NoPrice THEN skip
        ELSE IF usual_price[1] = 0 THEN [kind |-> "raise"]
        ELSE LET discount_percentage == DiscountPercentage(f.price, usual_price)
             IN  IF ~FracGE(discount_percentage, cfg.discount_threshold_pct) THEN skip
                 ELSE IF ~DealPostInit(f, discount_percentage) THEN [kind |-> "raise"]
                 ELSE [ kind |-> "deal",
                        deal |-> [ flight |-> f, usual_price |-> usual_price,
                                   discount_percentage |-> discount_percentage,
                                   observations_count |-> observations ] ]


----------------------------------------------------------------------------
(* scanner/providers/travelpayouts.py and amadeus.py: search_flights *)

\* the provider class ScannerRunner.__init__ constructs
RunnerProvider == "travelpayouts"

Callers == 1..NumCallers

\* seconds, in ticks of 0.125 s
min_delay == 2         \* 0.25 s
retry_delay == 16      \* 2.0 s
wait_time == 480       \* 60.0 s
max_retries == 3
\* _rate_limit_remaining: its start and reset value, and the low-water mark
rate_limit_default == 300
rate_limit_low == 20

NoResult == [kind |-> "none", flights |-> <<>>]

\* return <the parsed flights>
Returned(flights) == [kind |-> "list", flights |-> flights]

\* an exception that leaves search_flights
Reraised == [kind |-> "raised", flights |-> <<>>]

\* except Exception as e: logger.error(...); return []
ExceptBranch == Returned(<<>>)

NoRequests ==
    [count |-> [c \in Callers |-> 0],
     after401 |-> [c \in Callers |-> 0],
     sentAt |-> [c \in Callers |-> 0],
     tooClose |-> FALSE]

\* the client after __init__, and callers that have not called yet; now is set
\* by Init and InitClient (loop.time() is a monotonic clock of unspecified origin)
ClientInit ==
    /\ cpc = [c \in Callers |-> "start"]
    /\ attempt = [c \in Callers |-> 0]
    /\ wake = [c \in Callers |-> 0]
    /\ lockHolder = 0
    /\ lockWaiters = <<>>
    /\ last_request_time = 0
    /\ rate_limit_remaining = rate_limit_default
    /\ token = 0
    /\ requests = NoRequests
    /\ reauth = [c \in Callers |-> 0]
    /\ coutcome = [c \in Callers |-> "none"]
    /\ cresult = [c \in Callers |-> NoResult]

\* what a response may carry as X-Rate-Limit-Remaining (absent, or unparsable,
\* leaves the estimate as it is)
Headers ==
    { [present |-> FALSE, value |-> 0],
      [present |-> TRUE, value |-> rate_limit_low],
      [present |-> TRUE, value |-> rate_limit_low + 1] }

\* the lists _parse_flights may build from a 200 response
Parsed == { <<>>, <<"offer">> }

AfterHeader(h) == IF h.present THEN h.value ELSE rate_limit_remaining

\* a backoff that does not grow
RetryAfterFlat(a) == retry_delay

\* retry_after = retry_delay * (2 ** attempt)
RetryAfter(a) == retry_delay * (2 ^ a)

\* session.get(...) by caller c, sent now
GetRequest(c, after401) ==
    [count |-> [requests.count EXCEPT ![c] = @ + 1],
     after401 |-> [requests.after401 EXCEPT ![c] = IF after401 THEN @ + 1 ELSE @],
     sentAt |-> [requests.sentAt EXCEPT ![c] = now],
     tooClose |-> \/ requests.tooClose
                  \/ \E d \in Callers : /\ requests.count[d] > 0
                                        /\ now - requests.sentAt[d] < min_delay]

\* a test that lets the low-water mark itself pass
QuotaBelowLow == rate_limit_remaining < rate_limit_low

\* if self._rate_limit_remaining <= 20
QuotaLow == rate_limit_remaining <= rate_limit_low

\* the top of the retry loop for attempt a, up to its first suspension: the
\* pause on a low estimate, or the request
LoopTop(c, a) ==
    /\ attempt' = [attempt EXCEPT ![c] = a]
    /\ IF QuotaLow
       THEN /\ cpc' = [cpc EXCEPT ![c] = "quota"]
            /\ wake' = [wake EXCEPT ![c] = now + wait_time]
            /\ requests' = requests
       ELSE /\ cpc' = [cpc EXCEPT ![c] = "get"]
            /\ wake' = [wake EXCEPT ![c] = 0]
            /\ requests' = GetRequest(c, FALSE)

\* a block that stamps _last_request_time without looking at the time since the
\* last stamp
UnpacedSection(c) ==
    /\ lockHolder' = 0
    /\ last_request_time' = now
    /\ LoopTop(c, 0)

\* caller c has entered _request_lock: it sleeps what is missing of min_delay,
\* or stamps _last_request_time at once, leaves the lock and starts the loop
CriticalSection(c) ==
    LET time_since_last == now - last_request_time
    IN  IF time_since_last < min_delay
        THEN /\ lockHolder' = c
             /\ cpc' = [cpc EXCEPT ![c] = "pace"]
             /\ wake' = [wake EXCEPT ![c] = now + (min_delay - time_since_last)]
             /\ UNCHANGED <<last_request_time, attempt, requests>>
        ELSE /\ lockHolder' = 0
             /\ last_request_time' = now
             /\ LoopTop(c, 0)

tpOnly == provider = "travelpayouts"

\* search_flights is called; the lock is free and nobody waits for it, or the
\* caller queues up
TpEnter(c) ==
    /\ tpOnly
    /\ cpc[c] = "start"
    /\ IF lockHolder = 0 /\ lockWaiters = <<>>
       THEN CriticalSection(c) /\ lockWaiters' = lockWaiters
       ELSE /\ cpc' = [cpc EXCEPT ![c] = "lock"]
            /\ lockWaiters' = Append(lockWaiters, c)
            /\ UNCHANGED <<lockHolder, last_request_time, attempt, wake, requests>>
    /\ UNCHANGED <<ovars, uvars, provider, now, rate_limit_remaining, token, reauth,
                   coutcome, cresult>>

\* the first waiter gets the lock
TpLockAcquired(c) ==
    /\ tpOnly
    /\ cpc[c] = "lock"
    /\ lockHolder = 0
    /\ lockWaiters # <<>> /\ Head(lockWaiters) = c
    /\ lockWaiters' = Tail(lockWaiters)
    /\ CriticalSection(c)
    /\ UNCHANGED <<ovars, uvars, provider, now, rate_limit_remaining, token, reauth,
                   coutcome, cresult>>

\* the pacing sleep ends: stamp, leave the lock, start the loop
TpPaceWake(c) ==
    /\ tpOnly
    /\ cpc[c] = "pace"
    /\ now >= wake[c]
    /\ last_request_time' = now
    /\ lockHolder' = 0
    /\ LoopTop(c, 0)
    /\ UNCHANGED <<ovars, uvars, provider, now, lockWaiters, rate_limit_remaining, token,
                   reauth, coutcome, cresult>>

\* the pause on a low estimate ends: the estimate is reset and the request sent
TpQuotaWake(c) ==
    /\ tpOnly
    /\ cpc[c] = "quota"
    /\ now >= wake[c]
    /\ rate_limit_remaining' = rate_limit_default
    /\ requests' = GetRequest(c, FALSE)
    /\ cpc' = [cpc EXCEPT ![c] = "get"]
    /\ wake' = [wake EXCEPT ![c] = 0]
    /\ UNCHANGED <<ovars, uvars, provider, now, attempt, lockHolder, lockWaiters,
                   last_request_time, token, reauth, coutcome, cresult>>

\* response.status as the caller has seen it
Outcome(status) ==
    IF status = 200 THEN "ok"
    ELSE IF status = 429 THEN "429"
    ELSE IF status = 401 THEN "401" ELSE "error"

\* a client that retries a 401 as it retries a 429
TpOnStatusRetry401(status) ==
    IF status = 200 THEN "parse" ELSE IF status \in {429, 401} THEN "backoff" ELSE "return"

\* what the loop does with a status: parse, backoff (429), or return []
TpOnStatus(status) ==
    IF status = 200 THEN "parse" ELSE IF status = 429 THEN "backoff" ELSE "return"

\* the response to the request arrives
TpRespond(c) ==
    /\ tpOnly
    /\ cpc[c] = "get"
    /\ \E status \in {200, 429, 401, 500}, h \in Headers :
         /\ rate_limit_remaining' = AfterHeader(h)
         /\ CASE TpOnStatus(status) = "parse" ->
                   \E flights \in Parsed :
                     /\ coutcome' = [coutcome EXCEPT ![c] = Outcome(status)]
                     /\ cresult' = [cresult EXCEPT ![c] = Returned(flights)]
                     /\ cpc' = [cpc EXCEPT ![c] = "returned"]
                     /\ wake' = wake
              [] TpOnStatus(status) = "backoff" ->
                     /\ coutcome' = [coutcome EXCEPT ![c] = Outcome(status)]
                     /\ cresult' = cresult
                     /\ cpc' = [cpc EXCEPT ![c] = "backoff"]
                     /\ wake' = [wake EXCEPT ![c] = now + RetryAfter(attempt[c])]
              [] OTHER ->
                     /\ coutcome' = [coutcome EXCEPT ![c] = Outcome(status)]
                     /\ cresult' = [cresult EXCEPT ![c] = Returned(<<>>)]
                     /\ cpc' = [cpc EXCEPT ![c] = "returned"]
                     /\ wake' = wake
    /\ UNCHANGED <<ovars, uvars, provider, now, attempt, lockHolder, lockWaiters,
                   last_request_time, token, requests, reauth>>

\* session.get or response.json() raises (network error, timeout, a body that
\* is not JSON): the except branch of search_flights
TpRaise(c) ==
    /\ tpOnly
    /\ cpc[c] = "get"
    /\ coutcome' = [coutcome EXCEPT ![c] = "exception"]
    /\ cresult' = [cresult EXCEPT ![c] = ExceptBranch]
    /\ cpc' = [cpc EXCEPT ![c] = "returned"]
    /\ UNCHANGED <<ovars, uvars, provider, now, attempt, wake, lockHolder, lockWaiters,
                   last_request_time, rate_limit_remaining, token, requests, reauth>>

\* the backoff sleep ends: the next attempt, or the end of the retries
TpBackoffWake(c) ==
    /\ tpOnly
    /\ cpc[c] = "backoff"
    /\ now >= wake[c]
    /\ IF attempt[c] + 1 < max_retries
       THEN LoopTop(c, attempt[c] + 1) /\ cresult' = cresult
       ELSE /\ cpc' = [cpc EXCEPT ![c] = "returned"]
            /\ cresult' = [cresult EXCEPT ![c] = Returned(<<>>)]
            /\ wake' = [wake EXCEPT ![c] = 0]
            /\ UNCHANGED <<attempt, requests>>
    /\ UNCHANGED <<ovars, uvars, provider, now, lockHolder, lockWaiters, last_request_time,
                   rate_limit_remaining, token, reauth, coutcome>>

Sleeping == { c \in Callers : cpc[c] \in {"pace", "quota", "backoff"} }

\* asyncio.sleep(d) ends d after it began: the clock stands still while a sleep
\* that has run out waits to be resumed
NoneDue == \A c \in Sleeping : wake[c] > now

\* time passes until the next sleep runs out
Advance ==
    /\ NoneDue
    /\ \E c \in Sleeping : /\ now' = wake[c]
                           /\ \A d \in Sleeping : wake[d] >= wake[c]
    /\ UNCHANGED <<ovars, uvars, provider, cpc, attempt, wake, lockHolder, lockWaiters,
                   last_request_time, rate_limit_remaining, token, requests, reauth,
                   coutcome, cresult>>

\* time passes
IdleTick ==
    /\ NoneDue
    /\ now < MaxIdle
    /\ now' = now + 1
    /\ UNCHANGED <<ovars, uvars, provider, cpc, attempt, wake, lockHolder, lockWaiters,
                   last_request_time, rate_limit_remaining, token, requests, reauth,
                   coutcome, cresult>>

amOnly == provider = "amadeus"

\* _authenticate: a 200 with an access_token, a 200 without one (the token
\* becomes None), or another status or an exception (the token stays)
AuthOutcomes == {"token", "notoken", "failed"}

AfterAuth(outcome) ==
    IF outcome = "token" THEN 1 ELSE IF outcome = "notoken" THEN 0 ELSE token

amUnchanged == <<ovars, uvars, provider, now, attempt, wake, lockHolder, lockWaiters,
                 last_request_time, rate_limit_remaining>>

\* search_flights is called: _ensure_authenticated posts for a token when there
\* is none or it has expired; else the token is there and the request is sent
AmEnter(c) ==
    /\ amOnly
    /\ cpc[c] = "start"
    /\ \E expired \in BOOLEAN :
         IF token = 0 \/ expired
         THEN cpc' = [cpc EXCEPT ![c] = "auth"] /\ requests' = requests
         ELSE /\ cpc' = [cpc EXCEPT ![c] = "get"]
              /\ requests' = GetRequest(c, FALSE)
    /\ UNCHANGED <<amUnchanged, token, reauth, coutcome, cresult>>

\* _authenticate ends: a token on 200, else (another status, an exception) the
\* token stays what it was; without a token search_flights returns []
AmAuthenticated(c) ==
    /\ amOnly
    /\ cpc[c] = "auth"
    /\ \E outcome \in AuthOutcomes :
         /\ token' = AfterAuth(outcome)
         /\ IF token' = 0
            THEN /\ cpc' = [cpc EXCEPT ![c] = "returned"]
                 /\ cresult' = [cresult EXCEPT ![c] = Returned(<<>>)]
                 /\ coutcome' = [coutcome EXCEPT ![c] = "noauth"]
                 /\ requests' = requests
            ELSE /\ cpc' = [cpc EXCEPT ![c] = "get"]
                 /\ requests' = GetRequest(c, FALSE)
                 /\ UNCHANGED <<cresult, coutcome>>
    /\ UNCHANGED <<amUnchanged, reauth>>

\* the response to the first request: 200 is parsed, 401 starts the
\* re-authentication, another status returns []
AmRespond(c) ==
    /\ amOnly
    /\ cpc[c] = "get"
    /\ \E status \in {200, 401, 500} :
         IF status = 200
         THEN \E flights \in Parsed :
                /\ coutcome' = [coutcome EXCEPT ![c] = "ok"]
                /\ cresult' = [cresult EXCEPT ![c] = Returned(flights)]
                /\ cpc' = [cpc EXCEPT ![c] = "returned"]
                /\ reauth' = reauth
         ELSE IF status = 401
         THEN /\ coutcome' = [coutcome EXCEPT ![c] = "401"]
              /\ cpc' = [cpc EXCEPT ![c] = "reauth"]
              /\ reauth' = [reauth EXCEPT ![c] = @ + 1]
              /\ cresult' = cresult
         ELSE /\ coutcome' = [coutcome EXCEPT ![c] = "error"]
              /\ cresult' = [cresult EXCEPT ![c] = Returned(<<>>)]
              /\ cpc' = [cpc EXCEPT ![c] = "returned"]
              /\ reauth' = reauth
    /\ UNCHANGED <<amUnchanged, token, requests>>

\* the re-authentication ends; if self.token: the request is sent once more
AmReauthenticated(c) ==
    /\ amOnly
    /\ cpc[c] = "reauth"
    /\ \E outcome \in AuthOutcomes :
         /\ token' = AfterAuth(outcome)
         /\ IF token' # 0
            THEN /\ cpc' = [cpc EXCEPT ![c] = "get2"]
                 /\ requests' = GetRequest(c, TRUE)
                 /\ cresult' = cresult
            ELSE /\ cpc' = [cpc EXCEPT ![c] = "returned"]
                 /\ cresult' = [cresult EXCEPT ![c] = Returned(<<>>)]
                 /\ requests' = requests
    /\ UNCHANGED <<amUnchanged, reauth, coutcome>>

\* the response to the repeated request: 200 is parsed, anything else returns []
AmRespondAgain(c) ==
    /\ amOnly
    /\ cpc[c] = "get2"
    /\ \E status \in {200, 401, 500} :
         IF status = 200
         THEN \E flights \in Parsed :
                /\ coutcome' = [coutcome EXCEPT ![c] = "ok"]
                /\ cresult' = [cresult EXCEPT ![c] = Returned(flights)]
         ELSE /\ coutcome' = [coutcome EXCEPT ![c] = Outcome(status)]
              /\ cresult' = [cresult EXCEPT ![c] = Returned(<<>>)]
    /\ cpc' = [cpc EXCEPT ![c] = "returned"]
    /\ UNCHANGED <<amUnchanged, token, requests, reauth>>

\* a request or response.json() raises inside the try: the except branch
AmRaise(c) ==
    /\ amOnly
    /\ cpc[c] \in {"get", "get2"}
    /\ coutcome' = [coutcome EXCEPT ![c] = "exception"]
    /\ cresult' = [cresult EXCEPT ![c] = ExceptBranch]
    /\ cpc' = [cpc EXCEPT ![c] = "returned"]
    /\ UNCHANGED <<amUnchanged, token, requests, reauth>>

CallerStep(c) ==
    \/ TpEnter(c)
    \/ TpLockAcquired(c)
    \/ TpPaceWake(c)
    \/ TpQuotaWake(c)
    \/ TpRespond(c)
    \/ TpRaise(c)
    \/ TpBackoffWake(c)
    \/ AmEnter(c)
    \/ AmAuthenticated(c)
    \/ AmRespond(c)
    \/ AmReauthenticated(c)
    \/ AmRespondAgain(c)
    \/ AmRaise(c)

NextClient ==
    \/ \E c \in Callers : CallerStep(c)
    \/ Advance
    \/ IdleTick

----------------------------------------------------------------------------
(* scanner/runner.py: ScannerRunner *)

NoFlights == [t \in TaskIds |-> <<>>]

\* per fingerprint of an offer, no send yet
NoneSent == [h \in {to_hash(f) : f \in Offers("CDG", "LON")} |-> 0]

\* the runner after __init__ and initialize(): empty tables, nothing running
RunnerInit ==
    /\ running = FALSE
    /\ phase = "idle"
    /\ semaphore = 0
    /\ tpc = [t \in TaskIds |-> "done"]
    /\ tflights = NoFlights
    /\ ti = [t \in TaskIds |-> 1]
    /\ traised = [t \in TaskIds |-> FALSE]
    /\ tlost = [t \in TaskIds |-> {}]
    /\ tdropped = [t \in TaskIds |-> <<>>]
    /\ tcapped = [t \in TaskIds |-> <<>>]
    /\ toverlap = {}
    /\ all_flights = <<>>
    /\ deals = <<>>
    /\ di = 1
    /\ ni = 1
    /\ npc = "check"
    /\ price_history = EmptyBag
    /\ notified_deals = {}
    /\ dbWriter = 0
    /\ sent = NoneSent
    /\ lastSend = "none"
    /\ failed = {}
    /\ caught = FALSE
    /\ cleanups = 0

Init ==
    /\ RunnerInit
    /\ width \in {1, 2}
    /\ provider = RunnerProvider
    /\ now = 0
    /\ ClientInit
    /\ cfg = config
    /\ answer_len = MaxOffers
    /\ UnitInit

cycleVars == <<semaphore, tpc, tflights, ti, traised, tlost, tdropped, tcapped, toverlap>>
detectVars == <<all_flights, deals, di>>
notifyVars == <<ni, npc>>
dbVars == <<price_history, notified_deals, dbWriter>>
sendVars == <<sent, lastSend, failed>>
obsVars == <<sendVars, caught, cleanups>>

\* run(): self._running = True
Run ==
    /\ phase = "idle"
    /\ phase' = "loop"
    /\ running' = TRUE
    /\ UNCHANGED <<cvars, uvars, width, cycleVars, detectVars, notifyVars, dbVars, obsVars>>

\* stop(): self._running = False, at any moment of run()
Stop ==
    /\ phase \notin {"idle", "stopped"}
    /\ running
    /\ running' = FALSE
    /\ UNCHANGED <<cvars, uvars, phase, width, cycleVars, detectVars, notifyVars, dbVars, obsVars>>

\* a loop that stop() cannot end
WhileTrue == TRUE

\* run(): while self._running
WhileRunning == running

\* while self._running: scan_cycle() starts; the semaphore and the tasks are created
StartCycle ==
    /\ phase = "loop"
    /\ WhileRunning
    /\ phase' = "scan"
    /\ semaphore' = width
    /\ tpc' = [t \in TaskIds |-> "wait"]
    /\ tflights' = NoFlights
    /\ ti' = [t \in TaskIds |-> 1]
    /\ traised' = [t \in TaskIds |-> FALSE]
    /\ tlost' = [t \in TaskIds |-> {}]
    /\ tdropped' = [t \in TaskIds |-> <<>>]
    /\ tcapped' = [t \in TaskIds |-> <<>>]
    /\ toverlap' = {}
    /\ all_flights' = <<>>
    /\ deals' = <<>>
    /\ di' = 1
    /\ ni' = 1
    /\ npc' = "check"
    /\ UNCHANGED <<cvars, uvars, running, width, dbVars, obsVars>>

\* the while loop ends; finally: self._running = False, cleanup()
ExitLoop ==
    /\ phase = "loop"
    /\ ~WhileRunning
    /\ phase' = "stopped"
    /\ running' = FALSE
    /\ cleanups' = cleanups + 1
    /\ UNCHANGED <<cvars, uvars, width, cycleVars, detectVars, notifyVars, dbVars, sendVars, caught>>

\* an acquire that never waits
SemAcquireAlways(t) == TRUE

\* async with semaphore: the task waits until a slot is free
SemAcquireGuard(t) == semaphore > 0

Acquire(t) ==
    /\ phase = "scan"
    /\ tpc[t] = "wait"
    /\ SemAcquireGuard(t)
    /\ semaphore' = semaphore - 1
    /\ tpc' = [tpc EXCEPT ![t] = "route"]
    /\ UNCHANGED <<cvars, uvars, running, phase, width, tflights, ti, traised, tlost, tdropped,
                   tcapped, toverlap, detectVars, notifyVars, dbVars, obsVars>>

\* what provider.search_flights returns for the offers resp: _parse_flights drops
\* the offers above max_price when max_price is given (None and 0 are both falsy)
SearchFlights(resp, max_price) ==
    SelectSeq(resp, LAMBDA f : ~(max_price # 0 /\ f.price > max_price))

\* the offers of resp that _parse_flights leaves out: 'continue' on max_price
Capped(resp, max_price) ==
    SelectSeq(resp, LAMBDA f : max_price # 0 /\ f.price > max_price)

\* scan_route up to the store loop: the provider call and the round-trip filter
ScanRoute(t) ==
    /\ phase = "scan"
    /\ tpc[t] = "route"
    /\ \E resp \in Responses(tasks[t].origin, tasks[t].destination, answer_len) :
         LET is_asia == tasks[t].destination \in asia_destinations
             max_price == IF is_asia THEN 0 ELSE cfg.max_price
             flights == SearchFlights(resp, max_price)
             round_trip_flights == SelectSeq(flights, is_round_trip)
         IN  /\ tflights' = [tflights EXCEPT ![t] = round_trip_flights]
             /\ tdropped' = [tdropped EXCEPT ![t] =
                               SelectSeq(flights, LAMBDA f : ~is_round_trip(f))]
             /\ tcapped' = [tcapped EXCEPT ![t] = Capped(resp, max_price)]
             /\ tpc' = [tpc EXCEPT ![t] =
                          IF round_trip_flights = <<>> THEN "pace" ELSE "store"]
    /\ UNCHANGED <<cvars, uvars, running, phase, width, semaphore, ti, traised, tlost,
                   toverlap, detectVars, notifyVars, dbVars, obsVars>>

\* an exception of a scan task that leaves scan_cycle
ScanRoutePropagates(t) ==
    /\ phase = "scan"
    /\ tpc[t] = "route"
    /\ traised' = [traised EXCEPT ![t] = TRUE]
    /\ phase' = "interval"
    /\ UNCHANGED <<cvars, uvars, running, width, semaphore, tpc, tflights, ti, tlost, tdropped,
                   tcapped, toverlap, detectVars, notifyVars, dbVars, obsVars>>

\* scan_route's except branch: an exception before the store loop, return []
ScanRouteRaise(t) ==
    /\ phase = "scan"
    /\ tpc[t] = "route"
    /\ traised' = [traised EXCEPT ![t] = TRUE]
    /\ tflights' = [tflights EXCEPT ![t] = <<>>]
    /\ tpc' = [tpc EXCEPT ![t] = "pace"]
    /\ UNCHANGED <<cvars, uvars, running, phase, width, semaphore, ti, tlost, tdropped,
                   tcapped, toverlap, detectVars, notifyVars, dbVars, obsVars>>

\* the store loop moves to its next flight, or ends
NextStore(t) ==
    /\ ti' = [ti EXCEPT ![t] = @ + 1]
    /\ tpc' = [tpc EXCEPT ![t] = IF ti[t] < Len(tflights[t]) THEN "store" ELSE "pace"]

\* store_price: db.execute(INSERT OR IGNORE ...) takes SQLite's write lock; a
\* second connection waits (busy handler) while another holds it
StoreExecute(t) ==
    /\ phase = "scan"
    /\ tpc[t] = "store"
    /\ dbWriter = 0
    /\ dbWriter' = t
    /\ tpc' = [tpc EXCEPT ![t] = "commit"]
    /\ LET waiting == { u \in TaskIds \ {t} :
                          /\ tpc[u] = "store"
                          /\ UniqueKey(Row(tflights[u][ti[u]]))
                                = UniqueKey(Row(tflights[t][ti[t]])) }
       IN  toverlap' = IF waiting = {} THEN toverlap ELSE toverlap \cup waiting \cup {t}
    /\ UNCHANGED <<cvars, uvars, running, phase, width, semaphore, tflights, ti, traised,
                   tlost, tdropped, tcapped, detectVars, notifyVars, price_history,
                   notified_deals, obsVars>>

\* store_price: db.commit() makes the insert durable and frees the write lock
StoreCommit(t) ==
    /\ phase = "scan"
    /\ tpc[t] = "commit"
    /\ price_history' = InsertOrIgnore(price_history, Row(tflights[t][ti[t]]))
    /\ dbWriter' = 0
    /\ NextStore(t)
    /\ UNCHANGED <<cvars, uvars, running, phase, width, semaphore, tflights, traised, tlost,
                   tdropped, tcapped, toverlap, detectVars, notifyVars, notified_deals,
                   obsVars>>

\* a store_price that lets the exception out: scan_route's except branch ends
\* the store loop and returns []
StoreFailPropagates(t) ==
    /\ phase = "scan"
    /\ tpc[t] \in {"store", "commit"}
    /\ dbWriter' = IF dbWriter = t THEN 0 ELSE dbWriter
    /\ tlost' = [tlost EXCEPT ![t] = @ \cup {ti[t]}]
    /\ traised' = [traised EXCEPT ![t] = TRUE]
    /\ tflights' = [tflights EXCEPT ![t] = <<>>]
    /\ tpc' = [tpc EXCEPT ![t] = "pace"]
    /\ UNCHANGED <<cvars, uvars, running, phase, width, semaphore, ti, tdropped, tcapped,
                   toverlap,
                   detectVars, notifyVars, price_history, notified_deals, obsVars>>

\* store_price's except branch: connect, execute or commit raised; the open
\* transaction is rolled back and the error is only logged
StoreFail(t) ==
    /\ phase = "scan"
    /\ tpc[t] \in {"store", "commit"}
    /\ dbWriter' = IF dbWriter = t THEN 0 ELSE dbWriter
    /\ tlost' = [tlost EXCEPT ![t] = @ \cup {ti[t]}]
    /\ NextStore(t)
    /\ UNCHANGED <<cvars, uvars, running, phase, width, semaphore, tflights, traised, tdropped,
                   tcapped, toverlap, detectVars, notifyVars, price_history, notified_deals,
                   obsVars>>

\* a block that may be left as soon as the slot is held
LeavesBlockEarly(t) == tpc[t] \in {"route", "store", "commit", "pace"}

\* the end of the async with block: after scan_route has returned and the sleep
\* of request_delay has ended
LeavesBlock(t) == tpc[t] = "pace"

\* asyncio.sleep(request_delay) ends, the task returns its result and leaves the
\* async with block, which frees its slot
PaceAndRelease(t) ==
    /\ phase = "scan"
    /\ LeavesBlock(t)
    /\ tpc' = [tpc EXCEPT ![t] = "done"]
    /\ semaphore' = semaphore + 1
    /\ UNCHANGED <<cvars, uvars, running, phase, width, tflights, ti, traised, tlost, tdropped,
                   tcapped, toverlap, detectVars, notifyVars, dbVars, obsVars>>

\* the results of the finished tasks, concatenated in task order
RECURSIVE Extend(_, _)
Extend(results, k) ==
    IF k = 0 THEN <<>> ELSE Extend(results, k - 1) \o results[k]

\* asyncio.gather has returned: every task is done; the results are collected
\* and the finished tasks' locals are gone (tcapped is kept for the cycle)
Collect ==
    /\ phase = "scan"
    /\ \A t \in TaskIds : tpc[t] = "done"
    /\ all_flights' = Extend(tflights, Len(tasks))
    /\ phase' = "detect"
    /\ tflights' = NoFlights
    /\ ti' = [t \in TaskIds |-> 1]
    /\ traised' = [t \in TaskIds |-> FALSE]
    /\ tlost' = [t \in TaskIds |-> {}]
    /\ tdropped' = [t \in TaskIds |-> <<>>]
    /\ toverlap' = {}
    /\ UNCHANGED <<cvars, uvars, running, width, semaphore, tpc, tcapped, deals, di, notifyVars,
                   dbVars, obsVars>>

Count(n) == IF n < MaxSent THEN n + 1 ELSE n

\* an exception of scan_cycle that leaves run(), whose finally clause ends it
CycleExceptionEndsRun == "stopped"

\* run(): except Exception around scan_cycle() logs the error; the loop goes on
\* to its sleep
CycleException == "interval"

\* detect_deals: one iteration of its loop; an exception leaves scan_cycle and is
\* caught by run()
DetectStep ==
    /\ phase = "detect"
    /\ di <= Len(all_flights)
    /\ \E countFails, medianFails, fallbackFails \in BOOLEAN :
         LET out == DetectOne(price_history, all_flights[di],
                              countFails, medianFails, fallbackFails)
         IN  IF out.kind = "raise"
             THEN /\ phase' = CycleException
                  /\ caught' = TRUE
                  /\ all_flights' = <<>>
                  /\ deals' = <<>>
                  /\ di' = 1
             ELSE /\ phase' = phase
                  /\ caught' = caught
                  /\ all_flights' = all_flights
                  /\ deals' = IF out.kind = "deal" THEN Append(deals, out.deal) ELSE deals
                  /\ di' = di + 1
    /\ UNCHANGED <<cvars, uvars, running, width, cycleVars, notifyVars, dbVars, sendVars,
                   cleanups>>

\* detect_deals returns; the notification loop starts
DetectDone ==
    /\ phase = "detect"
    /\ di > Len(all_flights)
    /\ phase' = "notify"
    /\ ni' = 1
    /\ npc' = "check"
    /\ UNCHANGED <<cvars, uvars, running, width, cycleVars, detectVars, dbVars, obsVars>>

\* is_deal_notified(flight_hash), whose except branch answers False
NotifyCheck ==
    /\ phase = "notify"
    /\ ni <= Len(deals)
    /\ npc = "check"
    /\ \E readFails \in BOOLEAN :
         LET notified == IF readFails THEN FALSE
                         ELSE is_deal_notified(notified_deals, to_hash(deals[ni].flight))
         IN  IF notified
             THEN ni' = ni + 1 /\ npc' = "check"
             ELSE ni' = ni /\ npc' = "send"
    /\ lastSend' = "none"
    /\ UNCHANGED <<cvars, uvars, running, phase, width, cycleVars, detectVars, dbVars, sent, failed,
                   caught, cleanups>>

\* a loop that marks the deal whatever the Notifier answered
AfterSendAlwaysMark(success) == "mark"

\* what the loop does with the Notifier's answer: mark on success, else next deal
AfterSend(success) == IF success THEN "mark" ELSE "check"

\* success = await self.notifier.send_notification(deal)
NotifySend ==
    /\ phase = "notify"
    /\ npc = "send"
    /\ \E success \in BOOLEAN :
         /\ lastSend' = IF success THEN "ok" ELSE "failed"
         /\ sent' = IF success
                    THEN [sent EXCEPT ![to_hash(deals[ni].flight)] = Count(@)]
                    ELSE sent
         /\ failed' = IF success THEN failed
                      ELSE failed \cup {to_hash(deals[ni].flight)}
         /\ npc' = AfterSend(success)
         /\ ni' = IF AfterSend(success) = "mark" THEN ni ELSE ni + 1
    /\ UNCHANGED <<cvars, uvars, running, phase, width, cycleVars, detectVars, dbVars,
                   caught, cleanups>>

\* mark_deal_as_notified, whose except branch only logs
NotifyMark ==
    /\ phase = "notify"
    /\ npc = "mark"
    /\ \E writeFails \in BOOLEAN :
         notified_deals' =
             IF writeFails THEN notified_deals
             ELSE mark_deal_as_notified(notified_deals, deals[ni].flight,
                                        deals[ni].usual_price,
                                        deals[ni].discount_percentage)
    /\ npc' = "check"
    /\ ni' = ni + 1
    /\ UNCHANGED <<cvars, uvars, running, phase, width, cycleVars, detectVars, price_history,
                   dbWriter, obsVars>>

\* scan_cycle returns and its locals are gone
NotifyDone ==
    /\ phase = "notify"
    /\ npc = "check"
    /\ ni > Len(deals)
    /\ phase' = "interval"
    /\ all_flights' = <<>>
    /\ deals' = <<>>
    /\ di' = 1
    /\ ni' = 1
    /\ lastSend' = "none"
    /\ UNCHANGED <<cvars, uvars, running, width, cycleVars, npc, dbVars, sent, failed,
                   caught, cleanups>>

\* asyncio.sleep(scan_interval_seconds) ends
IntervalElapsed ==
    /\ phase = "interval"
    /\ phase' = "loop"
    /\ caught' = FALSE
    /\ UNCHANGED <<cvars, uvars, running, width, cycleVars, detectVars, notifyVars, dbVars,
                   sendVars, cleanups>>

TaskStep(t) ==
    \/ Acquire(t)
    \/ ScanRoute(t)
    \/ ScanRouteRaise(t)
    \/ StoreExecute(t)
    \/ StoreCommit(t)
    \/ StoreFail(t)
    \/ PaceAndRelease(t)

Next ==
    \/ Run
    \/ Stop
    \/ StartCycle
    \/ ExitLoop
    \/ \E t \in TaskIds : TaskStep(t)
    \/ Collect
    \/ DetectStep
    \/ DetectDone
    \/ NotifyCheck
    \/ NotifySend
    \/ NotifyMark
    \/ NotifyDone
    \/ IntervalElapsed

Spec == Init /\ [][Next]_vars

\* config.yaml with max_price: 0
zero_cap == [config EXCEPT !.max_price = 0]

\* one run() under the default configuration or under that one
InitCap ==
    /\ RunnerInit
    /\ width \in {1, 2}
    /\ provider = RunnerProvider
    /\ now = 0
    /\ ClientInit
    /\ cfg \in {config, zero_cap}
    /\ answer_len = MaxOffers
    /\ UnitInit

SpecCap == InitCap /\ [][Next]_vars

\* config.yaml with discount_threshold: 0.0 and min_observations: 3, under which
\* detect_deals builds a Deal for a fare at the median and Deal.__post_init__ raises
low_threshold == [config EXCEPT !.discount_threshold_pct = 0, !.min_observations = 3]

\* one run() under that configuration
InitRun ==
    /\ RunnerInit
    /\ width = 2
    /\ provider = RunnerProvider
    /\ now = 0
    /\ ClientInit
    /\ cfg = low_threshold
    /\ answer_len = 1
    /\ UnitInit

SpecRun == InitRun /\ [][Next]_vars

\* the event loop runs every task that can run, and every sleep ends
SpecRunFair == SpecRun /\ WF_vars(Next)

----------------------------------------------------------------------------
(* The fan-out of the first scan_cycle with the provider client the runner
   constructs: scan task t is caller t of search_flights, inside its slot of
   the semaphore.  The clock is left out: a comparison with the time since the
   last request may go either way, and a sleep ends when its task is resumed. *)

searchFrame == <<ovars, uvars, provider, now, wake, last_request_time, token, requests,
                 reauth>>

\* the top of the retry loop for attempt a: the pause on a low estimate, or the
\* request
SearchLoopTop(t, a) ==
    /\ attempt' = [attempt EXCEPT ![t] = a]
    /\ cpc' = [cpc EXCEPT ![t] = IF QuotaLow THEN "quota" ELSE "get"]

\* a block that keeps _request_lock when its sleep ends
SearchUnlockNever(t) == lockHolder

\* the end of async with self._request_lock
SearchUnlock(t) == 0

\* inside _request_lock: asyncio.sleep when the last request is recent, else the
\* stamp at once and the end of the block
SearchSection(t) ==
    \E recent \in BOOLEAN :
        IF recent
        THEN /\ lockHolder' = t
             /\ cpc' = [cpc EXCEPT ![t] = "pace"]
             /\ attempt' = attempt
        ELSE /\ lockHolder' = 0
             /\ SearchLoopTop(t, 0)

\* scan_route awaits self.provider.search_flights(...): the task takes the free
\* lock or queues up for it
CallSearch(t) ==
    /\ phase = "scan"
    /\ tpc[t] = "route"
    /\ cpc[t] = "start"
    /\ IF lockHolder = 0 /\ lockWaiters = <<>>
       THEN SearchSection(t) /\ lockWaiters' = lockWaiters
       ELSE /\ cpc' = [cpc EXCEPT ![t] = "lock"]
            /\ lockWaiters' = Append(lockWaiters, t)
            /\ UNCHANGED <<lockHolder, attempt>>
    /\ UNCHANGED <<searchFrame, rate_limit_remaining, coutcome, cresult>>

\* the first waiter gets the lock
SearchLockAcquired(t) ==
    /\ cpc[t] = "lock"
    /\ lockHolder = 0
    /\ lockWaiters # <<>> /\ Head(lockWaiters) = t
    /\ lockWaiters' = Tail(lockWaiters)
    /\ SearchSection(t)
    /\ UNCHANGED <<searchFrame, rate_limit_remaining, coutcome, cresult>>

\* the pacing sleep ends: stamp, leave the lock, start the loop
SearchPaceWake(t) ==
    /\ cpc[t] = "pace"
    /\ lockHolder' = SearchUnlock(t)
    /\ SearchLoopTop(t, 0)
    /\ UNCHANGED <<searchFrame, lockWaiters, rate_limit_remaining, coutcome, cresult>>

\* the pause on a low estimate ends: the estimate is reset and the request sent
SearchQuotaWake(t) ==
    /\ cpc[t] = "quota"
    /\ rate_limit_remaining' = rate_limit_default
    /\ cpc' = [cpc EXCEPT ![t] = "get"]
    /\ UNCHANGED <<searchFrame, attempt, lockHolder, lockWaiters, coutcome, cresult>>

\* the provider answers the request, or the request fails (the except branch);
\* the attempt counter is a local of the call and goes with it
SearchRespond(t) ==
    /\ cpc[t] = "get"
    /\ \/ \E status \in {200, 429, 401, 500}, h \in Headers :
            /\ rate_limit_remaining' = AfterHeader(h)
            /\ IF TpOnStatus(status) = "backoff"
               THEN /\ cpc' = [cpc EXCEPT ![t] = "backoff"]
                    /\ UNCHANGED <<attempt, cresult>>
               ELSE /\ cpc' = [cpc EXCEPT ![t] = "returned"]
                    /\ attempt' = [attempt EXCEPT ![t] = 0]
                    /\ \E flights \in (IF TpOnStatus(status) = "parse" THEN Parsed ELSE {<<>>}) :
                         cresult' = [cresult EXCEPT ![t] = Returned(flights)]
       \/ /\ rate_limit_remaining' = rate_limit_remaining
          /\ cresult' = [cresult EXCEPT ![t] = ExceptBranch]
          /\ cpc' = [cpc EXCEPT ![t] = "returned"]
          /\ attempt' = [attempt EXCEPT ![t] = 0]
    /\ UNCHANGED <<searchFrame, lockHolder, lockWaiters, coutcome>>

\* the backoff sleep ends: the next attempt, or the end of the retries
SearchBackoffWake(t) ==
    /\ cpc[t] = "backoff"
    /\ IF attempt[t] + 1 < max_retries
       THEN SearchLoopTop(t, attempt[t] + 1) /\ cresult' = cresult
       ELSE /\ cpc' = [cpc EXCEPT ![t] = "returned"]
            /\ cresult' = [cresult EXCEPT ![t] = Returned(<<>>)]
            /\ attempt' = [attempt EXCEPT ![t] = 0]
    /\ UNCHANGED <<searchFrame, lockHolder, lockWaiters, rate_limit_remaining, coutcome>>

\* search_flights has returned its list: scan_route goes on with it
SearchReturns(t) ==
    /\ cpc[t] = "returned"
    /\ ScanRoute(t)
    /\ (cresult[t].flights = <<>>)
          <=> (tflights'[t] = <<>> /\ tdropped'[t] = <<>> /\ tcapped'[t] = <<>>)

\* an exception in scan_route before the provider is called
RaiseBeforeSearch(t) ==
    /\ cpc[t] = "start"
    /\ ScanRouteRaise(t)

\* the first scan_cycle of run(): no call of search_flights has been made yet
FirstCycle ==
    /\ \A c \in Callers : cpc[c] = "start"
    /\ StartCycle

CycleTaskStep(t) ==
    \/ Acquire(t)
    \/ CallSearch(t)
    \/ SearchLockAcquired(t)
    \/ SearchPaceWake(t)
    \/ SearchQuotaWake(t)
    \/ SearchRespond(t)
    \/ SearchBackoffWake(t)
    \/ SearchReturns(t)
    \/ RaiseBeforeSearch(t)
    \/ StoreExecute(t)
    \/ StoreCommit(t)
    \/ StoreFail(t)
    \/ PaceAndRelease(t)

NextCycle ==
    \/ Run
    \/ FirstCycle
    \/ \E t \in TaskIds : CycleTaskStep(t)
    \/ Collect

InitCycle ==
    /\ RunnerInit
    /\ width \in {1, 2}
    /\ provider = RunnerProvider
    /\ now = 0
    /\ ClientInit
    /\ cfg = config
    /\ answer_len = 1
    /\ UnitInit

SpecCycle == InitCycle /\ [][NextCycle]_vars

\* the event loop resumes every task that can run, every sleep ends, and the
\* provider answers every request or the request fails
SpecCycleFair == SpecCycle /\ WF_vars(NextCycle)

\* a client of either class under concurrent callers, beside an idle runner
InitClient ==
    /\ RunnerInit
    /\ width = 1
    /\ provider \in {"travelpayouts", "amadeus"}
    /\ now = 0
    /\ ClientInit
    /\ cfg = config
    /\ answer_len = 1
    /\ UnitInit

SpecClient == InitClient /\ [][NextClient]_vars

----------------------------------------------------------------------------
(* The store and the detector called directly, as tests/test_storage.py and
   tests/test_deal_detector.py call them: one Storage on an empty database, one
   DealDetector built with a configuration, calls made one after another.

   The thresholds 0.25, 0.5 and 0.75 and the prices below are such that
   discount_threshold * 100 and every discount on a boundary are exact in
   binary floating point, so the exact fractions of the model order the
   values as the floats of the code do. *)

\* the fixture of tests/test_deal_detector.py
TestConfig == [max_price |-> 200, discount_threshold_pct |-> 50, min_observations |-> 5]

\* configurations a ScannerConfig may also hold: the same cap and threshold with
\* a shorter history, a wider cap with a lower threshold, a tighter cap with a
\* higher threshold
Configs ==
    { TestConfig,
      [max_price |-> 200, discount_threshold_pct |-> 50, min_observations |-> 2],
      [max_price |-> 300, discount_threshold_pct |-> 25, min_observations |-> 1],
      [max_price |-> 100, discount_threshold_pct |-> 75, min_observations |-> 2] }

June15 == Date(2024, 6, 15)
June22 == Date(2024, 6, 22)

\* the flights store_price is called with: five prices of one route and day,
\* one of the same route a month later, two of a long-haul route
StoreFlights ==
    { Flight("CDG", "NYC", June15, June22, p, "AF", FALSE) : p \in {100, 200, 300, 400, 500} }
    \cup { Flight("CDG", "NYC", Date(2024, 7, 15), Date(2024, 7, 22), 600, "AF", FALSE) }
    \cup { Flight("CDG", "BKK", Date(2024, 6, day), June22, 800, "TG", TRUE) : day \in {15, 16} }

\* the flights detect_deals is called with
Candidates ==
    { Flight("CDG", "NYC", June15, June22, p, "AF", FALSE) : p \in {100, 101, 150, 250, 350} }
    \cup { Flight("CDG", "NYC", June15, NoDate, 100, "AF", FALSE) }
    \cup { Flight("CDG", "BKK", June15, June22, 350, "TG", stop) : stop \in BOOLEAN }
    \cup { Flight("CDG", "BKK", June15, June22, 600, "TG", TRUE) }

\* the (month, year) a query is made with
Scopes == { <<6, 2024>>, <<7, 2024>>, <<NoFilter, NoFilter>> }

unitFrame == <<running, phase, width, cycleVars, detectVars, notifyVars, dbWriter,
               obsVars, cvars, cfg, answer_len, marked, recorded, gen>>

\* await storage.store_price(flight), with nothing else using the database
RecordPrice(f) ==
    /\ price_history' = InsertOrIgnore(price_history, Row(f))
    /\ probe' = [op |-> "store"]
    /\ UNCHANGED <<unitFrame, notified_deals, ncalls>>

\* await storage.get_median_price(origin, destination, month, year)
QueryMedian(o, d, scope) ==
    /\ probe' = [op |-> "median", origin |-> o, destination |-> d, scope |-> scope,
                 result |-> get_median_price(price_history, o, d, scope[1], scope[2])]
    /\ UNCHANGED <<unitFrame, price_history, notified_deals, ncalls>>

\* await storage.get_observations_count(origin, destination, month, year)
QueryCount(o, d, scope) ==
    /\ probe' = [op |-> "count", origin |-> o, destination |-> d, scope |-> scope,
                 result |-> get_observations_count(price_history, o, d, scope[1], scope[2])]
    /\ UNCHANGED <<unitFrame, price_history, notified_deals, ncalls>>

\* await detector.detect_deals([flight]): the list of deals, or the exception
\* that leaves detect_deals
Detect(f) ==
    /\ LET r == DetectOne(price_history, f, FALSE, FALSE, FALSE)
       IN  probe' = [op |-> "detect", flight |-> f, raised |-> r.kind = "raise",
                     deals |-> IF r.kind = "deal" THEN <<r.deal>> ELSE <<>>]
    /\ UNCHANGED <<unitFrame, price_history, notified_deals, ncalls>>

\* Deal(flight, usual_price, discount_percentage, observations_count): the
\* dataclass is built and __post_init__ runs
NewDeal(f, discount_percentage) ==
    /\ probe' = [op |-> "deal", flight |-> f, discount_percentage |-> discount_percentage,
                 raised |-> ~DealPostInit(f, discount_percentage)]
    /\ UNCHANGED <<unitFrame, price_history, notified_deals, ncalls>>

\* the flights and the discounts a Deal is built with: 30 % and 60 %
DealFlights ==
    { Flight("CDG", "NYC", June15, June22, p, "AF", FALSE) : p \in {150, 250} }
    \cup { Flight("CDG", "BKK", June15, June22, 350, "TG", stop) : stop \in BOOLEAN }

Discounts == { <<30, 1>>, <<60, 1>> }

NextUnit ==
    \/ \E f \in StoreFlights : RecordPrice(f)
    \/ \E d \in {"NYC", "BKK"}, scope \in Scopes : QueryMedian("CDG", d, scope)
    \/ \E d \in {"NYC", "BKK"}, scope \in Scopes : QueryCount("CDG", d, scope)
    \/ \E f \in Candidates : Detect(f)
    \/ \E f \in DealFlights, q \in Discounts : NewDeal(f, q)

InitUnit ==
    /\ RunnerInit
    /\ width = 1
    /\ provider = RunnerProvider
    /\ now = 0
    /\ ClientInit
    /\ cfg \in Configs
    /\ answer_len = 1
    /\ UnitInit

SpecUnit == InitUnit /\ [][NextUnit]_vars

\* detect_deals on a list: the loop over the flights, with no failing read.  An
\* exception at any flight leaves the call and nothing is returned.
RECURSIVE detect_deals(_, _)
detect_deals(ph, flights) ==
    IF flights = <<>>
    THEN [raised |-> FALSE, deals |-> <<>>]
    ELSE LET out == DetectOne(ph, Head(flights), FALSE, FALSE, FALSE)
             rest == detect_deals(ph, Tail(flights))
         IN  IF out.kind = "raise" \/ rest.raised
             THEN [raised |-> TRUE, deals |-> <<>>]
             ELSE [raised |-> FALSE,
                   deals |-> (IF out.kind = "deal" THEN <<out.deal>> ELSE <<>>) \o rest.deals]

\* the flights of the lists detection is run on: three fares and a one-way fare
ListFlights ==
    { Flight("CDG", "NYC", June15, June22, p, "AF", FALSE) : p \in {100, 150, 250} }
    \cup { Flight("CDG", "NYC", June15, NoDate, 100, "AF", FALSE) }

\* the lists, a fare repeated included
DetectLists == UNION { [1..n -> ListFlights] : n \in 1..MaxListLen }

\* await detector.detect_deals(flights)
DetectList(flights) ==
    /\ LET r == detect_deals(price_history, flights)
       IN  probe' = [op |-> "detect_list", flights |-> flights, raised |-> r.raised,
                     deals |-> r.deals]
    /\ UNCHANGED <<unitFrame, price_history, notified_deals, ncalls>>

NextDetect ==
    \/ \E f \in StoreFlights : RecordPrice(f)
    \/ \E flights \in DetectLists : DetectList(flights)

SpecDetect == InitUnit /\ [][NextDetect]_vars

----------------------------------------------------------------------------
(* The end-to-end scenario of tests/test_deal_detector.py,
   test_detect_deal_with_sufficient_history: observations of 300 EUR for
   CDG -> NYC in June 2024 are recorded, then detection runs on one flight of
   100 EUR for the same route and month.  The test records the same flight each
   time; here the day of June is free, so the recorded observations may be the
   same or differ. *)

\* a recorded observation: Flight(origin, destination, departure_date, price,
\* airline) as the test builds it, departing on a day of June 2024
Observation300(day) == Flight("CDG", "NYC", Date(2024, 6, day), NoDate, 300, "AF", FALSE)

\* the flight detection runs on: the test's (no return date), or a round trip
CheapFlights ==
    { Flight("CDG", "NYC", June15, ret, 100, "AF", FALSE) : ret \in {NoDate, June22} }

\* for i in range(10): await storage.store_price(flight)
RecordObservation(day) ==
    /\ ncalls < NumObservations
    /\ price_history' = InsertOrIgnore(price_history, Row(Observation300(day)))
    /\ ncalls' = ncalls + 1
    /\ probe' = [op |-> "store"]
    /\ UNCHANGED <<unitFrame, notified_deals>>

\* deals = await detector.detect_deals([cheap_flight])
DetectCheap(f) ==
    /\ Detect(f)

NextEndToEnd ==
    \/ \E day \in 1..NumObservations : RecordObservation(day)
    \/ \E f \in CheapFlights : DetectCheap(f)

InitEndToEnd ==
    /\ RunnerInit
    /\ width = 1
    /\ provider = RunnerProvider
    /\ now = 0
    /\ ClientInit
    /\ cfg = TestConfig
    /\ answer_len = 1
    /\ UnitInit

SpecEndToEnd == InitEndToEnd /\ [][NextEndToEnd]_vars

----------------------------------------------------------------------------
(* The record of notified deals, called directly as tests/test_storage.py,
   test_deal_notification_tracking, does: mark_deal_as_notified and
   is_deal_notified on a database nothing else is using, so that no statement
   takes its except branch. *)

\* the flight of the test
DedupBase == Flight("CDG", "NYC", June15, June22, 100, "AF", FALSE)

\* the flight of the test and the flights that differ from it in one field
DedupFlights ==
    { DedupBase,
      [DedupBase EXCEPT !.origin = "ORY"],
      [DedupBase EXCEPT !.destination = "LON"],
      [DedupBase EXCEPT !.departure_date = Date(2024, 6, 16)],
      [DedupBase EXCEPT !.return_date = Date(2024, 6, 23)],
      [DedupBase EXCEPT !.return_date = NoDate],
      [DedupBase EXCEPT !.price = 101],
      [DedupBase EXCEPT !.airline = "BA"],
      [DedupBase EXCEPT !.has_stopover = TRUE],
      [DedupBase EXCEPT !.currency = "USD"],
      [DedupBase EXCEPT !.departure_time = "10:30"],
      [DedupBase EXCEPT !.booking_url = "https://example.com/booking"] }

\* the (usual_price, discount_percentage) a deal is marked with: 200 and 50 %,
\* 300 and 66.7 %
MarkValues == { << <<200, 1>>, <<50, 1>> >>, << <<300, 1>>, <<200, 3>> >> }

dedupFrame == <<running, phase, width, cycleVars, detectVars, notifyVars, price_history,
                dbWriter, obsVars, cvars, cfg, answer_len, ncalls, recorded, gen>>

\* await storage.mark_deal_as_notified(flight, usual_price, discount_percentage)
MarkNotified(f, usual_price, discount_percentage) ==
    /\ Cardinality(marked \cup {f}) <= MaxMarked
    /\ notified_deals' = mark_deal_as_notified(notified_deals, f, usual_price,
                                               discount_percentage)
    /\ marked' = marked \cup {f}
    /\ probe' = [op |-> "mark", flight |-> f]
    /\ UNCHANGED dedupFrame

\* await storage.is_deal_notified(flight.to_hash())
IsNotified(f) ==
    /\ probe' = [op |-> "is_notified", flight |-> f,
                 result |-> is_deal_notified(notified_deals, to_hash(f))]
    /\ UNCHANGED <<dedupFrame, notified_deals, marked>>

NextDedup ==
    \/ \E f \in DedupFlights, v \in MarkValues : MarkNotified(f, v[1], v[2])
    \/ \E f \in DedupFlights : IsNotified(f)

InitDedup ==
    /\ RunnerInit
    /\ width = 1
    /\ provider = RunnerProvider
    /\ now = 0
    /\ ClientInit
    /\ cfg = TestConfig
    /\ answer_len = 1
    /\ UnitInit

SpecDedup == InitDedup /\ [][NextDedup]_vars

----------------------------------------------------------------------------
(* scanner/runner.py: _generate_date_pairs, one step per iteration of its
   while loop.  A date is its proleptic ordinal (date.toordinal()), so that
   date + timedelta(days=n) is an addition; date.min has ordinal 1 and an
   addition that falls below it raises OverflowError. *)

\* date.min.toordinal()
MinOrdinal == 1

\* date.today() of the first call
Today == 10

\* the scan-window fields of ScannerConfig
DateConfigs ==
    [ min_days_from_now : {0, 2},
      max_days_from_now : {1, 17},
      min_stay_days : {-1, 0, 1, 3},
      max_stay_days : {1, 20},
      stay_days_step : {-1, 0, 1, 4},
      date_step_days : {-7, 0, 1, 7} ]

\* list(range(start, stop, step)) for a step other than 0
RECURSIVE range(_, _, _)
range(start, stop, step) ==
    IF (step > 0 /\ start < stop) \/ (step < 0 /\ start > stop)
    THEN <<start>> \o range(start + step, stop, step)
    ELSE <<>>

Min(a, b) == IF a <= b THEN a ELSE b

\* the stay lengths of one departure: range(min_stay_days,
\* min(max_stay_days + 1, 15), stay_days_step)
Stays(c) == range(c.min_stay_days, Min(c.max_stay_days + 1, 15), c.stay_days_step)

\* a generator that appends every return date, inside the window or not
KeepsAll(return_date, max_departure_date) == TRUE

\* if return_date <= max_departure_date
Keeps(return_date, max_departure_date) == return_date <= max_departure_date

\* the pairs the for loop appends for one departure
RECURSIVE PairsOf(_, _, _)
PairsOf(current_departure, stays, max_departure_date) ==
    IF stays = <<>> THEN <<>>
    ELSE (IF Keeps(current_departure + Head(stays), max_departure_date)
          THEN << <<current_departure, current_departure + Head(stays)>> >>
          ELSE <<>>)
         \o PairsOf(current_departure, Tail(stays), max_departure_date)

genFrame == <<ovars, cvars, cfg, answer_len, ncalls, marked, recorded, probe>>

\* the call starts: today = date.today(), the two bounds of the window, an empty
\* list.  The result of the call before is remembered for comparison.
GenCall ==
    /\ gen.pc \in {"idle", "returned", "raised"}
    /\ (gen.pc # "idle" => gen.calls < MaxGenCalls)
    /\ \E today \in (IF gen.pc = "idle" THEN {Today} ELSE {gen.today, gen.today + 1}) :
         gen' = [ pc |-> "loop",
                  calls |-> IF gen.pc = "idle" THEN 1 ELSE gen.calls + 1,
                  today |-> today,
                  current_departure |-> today + cfg.min_days_from_now,
                  max_departure_date |-> today + cfg.max_days_from_now,
                  date_pairs |-> <<>>,
                  iterations |-> 0,
                  previous |-> IF gen.pc = "idle" THEN [pc |-> "none"]
                               ELSE [pc |-> gen.pc, today |-> gen.today,
                                     date_pairs |-> gen.date_pairs] ]
    /\ UNCHANGED genFrame

\* a loop whose departure date does not move
SameDeparture(current_departure, date_step_days) == current_departure

\* the departure after current_departure: current_departure += timedelta(days=date_step_days)
NextDeparture(current_departure, date_step_days) == current_departure + date_step_days

\* one iteration of while current_departure <= max_departure_date.  range()
\* raises ValueError for a step of 0, a date below date.min raises OverflowError,
\* and a list that cannot grow any more raises MemoryError.  The iterations are
\* counted modulo 2, so that an iteration that changes no local is a step.
GenIterate ==
    /\ gen.pc = "loop"
    /\ gen.current_departure <= gen.max_departure_date
    /\ LET stays == Stays(cfg)
           more == PairsOf(gen.current_departure, stays, gen.max_departure_date)
           next == NextDeparture(gen.current_departure, cfg.date_step_days)
           raises == \/ cfg.stay_days_step = 0
                     \/ \E i \in 1..Len(stays) : gen.current_departure + stays[i] < MinOrdinal
                     \/ Len(gen.date_pairs) + Len(more) > MaxPairs
                     \/ next < MinOrdinal
       IN  gen' = IF raises
                  THEN [gen EXCEPT !.pc = "raised"]
                  ELSE [gen EXCEPT !.date_pairs = @ \o more, !.current_departure = next,
                                   !.iterations = (@ + 1) % 2]
    /\ UNCHANGED genFrame

\* the loop ends: return date_pairs
GenReturn ==
    /\ gen.pc = "loop"
    /\ gen.current_departure > gen.max_departure_date
    /\ gen' = [gen EXCEPT !.pc = "returned"]
    /\ UNCHANGED genFrame

NextDates ==
    \/ GenCall
    \/ GenIterate
    \/ GenReturn

InitDates ==
    /\ RunnerInit
    /\ width = 1
    /\ provider = RunnerProvider
    /\ now = 0
    /\ ClientInit
    /\ cfg \in DateConfigs
    /\ answer_len = 1
    /\ UnitInit

SpecDates == InitDates /\ [][NextDates]_vars

\* the generator is plain synchronous code: once called it keeps running
SpecDatesFair == SpecDates /\ WF_vars(NextDates)

----------------------------------------------------------------------------
(* scanner/storage.py: store_price called directly, in any order and any number
   of times, by callers that do not wait for one another.  SQLite lets one
   connection write at a time, so the inserts take effect one after another,
   in the order the writers get the lock. *)

\* observations of one route: three fares of one day, each seen with two return
\* dates (one row: the return date is not stored), and one fare a month later.
\* Every Flight the provider builds carries currency "EUR".
LedgerFlights ==
    { Flight("CDG", "LON", June15, ret, p, "AF", FALSE) :
        ret \in {June22, Date(2024, 6, 29)}, p \in {60, 180, 200} }
    \cup { Flight("CDG", "LON", Date(2024, 7, 15), Date(2024, 7, 22), 60, "AF", FALSE) }

ledgerFrame == <<running, phase, width, cycleVars, detectVars, notifyVars, notified_deals,
                 dbWriter, obsVars, cvars, cfg, answer_len, ncalls, marked, gen>>

\* await storage.store_price(flight); the except branch logs and stores nothing
StorePrice(f) ==
    /\ \E fails \in BOOLEAN :
         /\ price_history' = IF fails THEN price_history
                              ELSE InsertOrIgnore(price_history, Row(f))
         /\ recorded' = IF fails THEN recorded ELSE recorded \cup {f}
         /\ probe' = [op |-> "store_price", flight |-> f, failed |-> fails]
    /\ UNCHANGED ledgerFrame

\* the (month, year) the ledger is queried with: two periods that can hold rows,
\* the same month a year later, a month without rows, and no scope
LedgerScopes ==
    { <<6, 2024>>, <<7, 2024>>, <<6, 2025>>, <<8, 2024>>, <<NoFilter, NoFilter>> }

\* the routes the ledger is queried for: the one observed, and its reverse
LedgerRoutes == { <<"CDG", "LON">>, <<"LON", "CDG">> }

\* await storage.get_average_price(origin, destination, month, year)
QueryAverage(o, d, scope) ==
    /\ probe' = [op |-> "average", origin |-> o, destination |-> d, scope |-> scope,
                 result |-> get_average_price(price_history, o, d, scope[1], scope[2])]
    /\ UNCHANGED <<unitFrame, price_history, notified_deals, ncalls>>

NextLedger ==
    \/ \E f \in LedgerFlights : StorePrice(f)
    \/ \E r \in LedgerRoutes, scope \in LedgerScopes : QueryCount(r[1], r[2], scope)
    \/ \E r \in LedgerRoutes, scope \in LedgerScopes : QueryMedian(r[1], r[2], scope)
    \/ \E r \in LedgerRoutes, scope \in LedgerScopes : QueryAverage(r[1], r[2], scope)

InitLedger ==
    /\ RunnerInit
    /\ width = 1
    /\ provider = RunnerProvider
    /\ now = 0
    /\ ClientInit
    /\ cfg = config
    /\ answer_len = 1
    /\ UnitInit

SpecLedger == InitLedger /\ [][NextLedger]_vars

----------------------------------------------------------------------------
(* scanner/providers/travelpayouts.py: _parse_flights called directly on one
   response.  A JSON field of an offer is kept with its kind: a number, a text,
   an ISO timestamp, null, or absent (the offer has no such key). *)

RawPrices ==
    { [kind |-> "number", value |-> 60], [kind |-> "number", value |-> 250],
      [kind |-> "absent", value |-> 0], [kind |-> "text", value |-> 0] }

RawAirlines ==
    { [kind |-> "text", text |-> "AF"], [kind |-> "absent", text |-> ""],
      [kind |-> "null", text |-> ""] }

\* "2024-06-16T10:05:00+01:00", no key, or a text fromisoformat rejects
RawDepartures ==
    { [kind |-> "iso", date |-> Date(2024, 6, 16)], [kind |-> "absent", date |-> NoDate],
      [kind |-> "text", date |-> NoDate] }

RawReturns ==
    { [kind |-> "iso", date |-> Date(2024, 6, 23)], [kind |-> "absent", date |-> NoDate] }

RawOffers ==
    [ price : RawPrices, airline : RawAirlines, departure_at : RawDepartures,
      return_at : RawReturns ]

\* data["data"][destination]: the offers of one response, in the order of the dict
ParseResponses == UNION { [1..n -> RawOffers] : n \in 1..MaxOffers }

\* _parse_flights: the destinations for which a fare under 400 counts as a stopover
stopover_destinations ==
    { "BKK", "SIN", "HKG", "NRT", "HND", "ICN", "PEK", "PVG", "CAN", "KUL",
      "MNL", "JKT", "HAN", "SGN", "BOM", "DEL", "BLR", "MAA", "DPS", "CGK",
      "TPE", "KHH", "OKA", "FUK", "KIX", "NGO", "CTS", "GMP", "PUS", "CJU" }

\* the date of a timestamp, or the requested date when the key is absent or
\* fromisoformat raises (the inner except only logs)
ParsedDate(raw, requested) == IF raw.kind = "iso" THEN raw.date ELSE requested

\* one iteration of the loop over the offers: the flights it appends.  The body
\* of the per-offer try raises, and the offer is skipped, on float() of a text
\* that is no number and on '"/" in airline' for an airline that is null; a key
\* that is absent takes the default of offer.get.
ParseOffer(offer, origin, destination, departure_date, return_date, max_price) ==
    LET price_eur == IF offer.price.kind = "absent" THEN 0 ELSE offer.price.value
        airline == IF offer.airline.kind = "absent" THEN "Unknown" ELSE offer.airline.text
    IN  IF offer.price.kind = "text" THEN <<>>
        ELSE IF max_price # 0 /\ price_eur > max_price THEN <<>>
        ELSE IF offer.airline.kind = "null" THEN <<>>
        ELSE << [ Flight(origin, destination,
                         ParsedDate(offer.departure_at, departure_date),
                         ParsedDate(offer.return_at, return_date),
                         price_eur, airline,
                         destination \in stopover_destinations /\ price_eur < 400)
                  EXCEPT !.departure_time =
                             IF offer.departure_at.kind = "iso" THEN "10:05" ELSE "None",
                         !.booking_url = "https://www.aviasales.ru/search/" ] >>

RECURSIVE parse_flights(_, _, _, _, _, _)
parse_flights(data, origin, destination, departure_date, return_date, max_price) ==
    IF data = <<>> THEN <<>>
    ELSE ParseOffer(Head(data), origin, destination, departure_date, return_date, max_price)
         \o parse_flights(Tail(data), origin, destination, departure_date, return_date,
                          max_price)

parseFrame == <<ovars, cvars, cfg, answer_len, ncalls, marked, recorded, gen>>

\* flights = self._parse_flights(data, "CDG", "LON", June15, June22, max_price)
ParseCall ==
    /\ probe.op = "response"
    /\ probe' = [ op |-> "parse", data |-> probe.data, max_price |-> probe.max_price,
                  result |-> parse_flights(probe.data, "CDG", "LON", June15, June22,
                                           probe.max_price) ]
    /\ UNCHANGED parseFrame

NextParse == ParseCall

\* a response of the provider has arrived; max_price is None (0) or 200
InitParse ==
    /\ RunnerInit
    /\ width = 1
    /\ provider = RunnerProvider
    /\ now = 0
    /\ ClientInit
    /\ cfg = config
    /\ answer_len = 1
    /\ ncalls = 0
    /\ marked = {}
    /\ recorded = {}
    /\ gen = NoGen
    /\ probe \in { [op |-> "response", data |-> data, max_price |-> max_price] :
                      data \in ParseResponses, max_price \in {0, 200} }

SpecParse == InitParse /\ [][NextParse]_vars

----------------------------------------------------------------------------
(* Claims on the scan cycle *)

\* C1: for every fingerprint, the Notifier is successfully invoked at most once,
\* in every execution, also when a read or write of notified_deals fails.
C1_NotifiedAtMostOnce == \A h \in DOMAIN sent : sent[h] <= 1

\* C2: a notified_deals row is written only by the mark step that follows a
\* successful send, for the deal just sent; a failed send writes nothing and the
\* loop moves on; a deal is skipped without a send only when its fingerprint is in
\* notified_deals, so a fingerprint whose send failed is sent again by the next
\* cycle that detects it.
C2_RecordOnlyAfterSuccess ==
    /\ [][ /\ (notified_deals' # notified_deals =>
                 /\ phase = "notify" /\ npc = "mark" /\ lastSend = "ok"
                 /\ notified_deals' =
                      mark_deal_as_notified(notified_deals, deals[ni].flight,
                                            deals[ni].usual_price,
                                            deals[ni].discount_percentage))
           /\ (npc' = "mark" /\ npc # "mark" => npc = "send" /\ lastSend' = "ok")
           /\ (npc = "send" /\ lastSend' = "failed" =>
                 notified_deals' = notified_deals /\ npc' = "check" /\ ni' = ni + 1)
           /\ (phase = "notify" /\ npc = "check" /\ ni' = ni + 1 =>
                 is_deal_notified(notified_deals, to_hash(deals[ni].flight)))
         ]_vars
    /\ [](\A h \in failed : is_deal_notified(notified_deals, h) => sent[h] >= 1)

\* C2 witness: a fingerprint whose send once failed has been sent again with
\* success, and its row is written
C2_Witness ==
    \E r \in notified_deals : r.flight_hash \in failed /\ sent[r.flight_hash] = 1

\* the tasks between acquiring and releasing the semaphore
Holders == { t \in TaskIds : tpc[t] \in {"route", "store", "commit", "pace"} }

\* C3: at every moment the tasks that hold a gate slot are at most
\* max_concurrent_requests, and the free slots are what is left of them.
C3_GateBound ==
    /\ Cardinality(Holders) <= width
    /\ semaphore >= 0
    /\ (phase = "scan" => semaphore + Cardinality(Holders) = width)

\* C3 witness: every slot is taken and a task of the cross product waits
C3_Witness ==
    /\ phase = "scan"
    /\ Cardinality(Holders) = width
    /\ \E t \in TaskIds : tpc[t] = "wait"

\* C4: a task that raises has an empty result and has written nothing; its
\* raising step leaves the cycle in its scan phase and every sibling as it was;
\* the scan phase ends only by collecting the results of all the tasks, every one
\* finished; and after a task has raised, a task can still take a step or the
\* results can be collected, until deal detection starts.
C4_RaiseIsolated ==
    /\ [](\A t \in TaskIds :
            traised[t] => /\ tflights[t] = <<>>
                          /\ tlost[t] = {}
                          /\ ti[t] = 1
                          /\ tpc[t] \in {"pace", "done"})
    /\ [][ \A t \in TaskIds :
             (traised'[t] /\ ~traised[t]) =>
                 /\ phase' = "scan"
                 /\ price_history' = price_history
                 /\ \A u \in TaskIds \ {t} :
                      tpc'[u] = tpc[u] /\ tflights'[u] = tflights[u] ]_vars
    /\ [][ (phase = "scan" /\ phase' # "scan") =>
             /\ phase' = "detect"
             /\ \A t \in TaskIds : tpc[t] = "done"
             /\ all_flights' = Extend(tflights, Len(tasks)) ]_vars
    /\ []((phase = "scan" /\ \E t \in TaskIds : traised[t]) =>
            (ENABLED Collect \/ \E u \in TaskIds : ENABLED TaskStep(u)))

\* C4 witness: every task has finished, one of them by raising, another with an
\* observation to collect
C4_Witness ==
    /\ phase = "scan"
    /\ \A t \in TaskIds : tpc[t] = "done"
    /\ \E t, u \in TaskIds : traised[t] /\ tflights[u] # <<>>

\* the number of rows of the ledger that carry a uniqueness key
RowsWithKey(ph, k) ==
    BagCardinality([ r \in { x \in BagToSet(ph) : UniqueKey(x) = k } |-> ph[r] ])

\* the observations task t has recorded without a storage error
Recorded(t) ==
    { i \in 1..Len(tflights[t]) :
        (i < ti[t] \/ tpc[t] \in {"pace", "done"}) /\ i \notin tlost[t] }

C6_ConcurrentInsert ==
    /\ \A t \in toverlap : \A i \in Recorded(t) :
         RowsWithKey(price_history, UniqueKey(Row(tflights[t][i]))) = 1
    /\ \A t \in TaskIds : tpc[t] = "commit" => dbWriter = t /\ ENABLED StoreCommit(t)
    /\ (dbWriter # 0 => tpc[dbWriter] = "commit")

\* C6 witness: two tasks inserted the same key while both held a gate slot, both
\* recorded it without error, and one row is there
C6_Witness ==
    \E t, u \in toverlap :
        /\ t # u
        /\ Recorded(t) = {1} /\ Recorded(u) = {1}
        /\ UniqueKey(Row(tflights[t][1])) = UniqueKey(Row(tflights[u][1]))
        /\ RowsWithKey(price_history, UniqueKey(Row(tflights[t][1]))) = 1

----------------------------------------------------------------------------
(* Claims on the provider client *)

\* C7: any two requests sent to the provider, by whichever callers and on
\* whichever attempt, are at least min_delay (0.25 s) apart.
C7_RequestsSpaced == provider = RunnerProvider => ~requests.tooClose

\* C8: for one call of search_flights, the wait that follows the 429 answer to
\* attempt a is retry_delay * 2^a (2 s, 4 s, 8 s), so a retry is sent no sooner
\* than that after the request before it; the call sends at most max_retries (3)
\* requests; and when the third is answered 429 too the call returns an empty
\* list, having raised nothing and sent nothing more.
C8_BackoffAndCeiling ==
    /\ [](tpOnly => \A c \in Callers :
            /\ requests.count[c] <= max_retries
            /\ cresult[c].kind # "raised"
            /\ cpc[c] = "backoff" => coutcome[c] = "429" /\ requests.count[c] = attempt[c] + 1)
    /\ [][tpOnly => \A c \in Callers :
            /\ (cpc[c] = "get" /\ cpc'[c] = "backoff" =>
                  wake'[c] = now + retry_delay * (2 ^ attempt[c]))
            /\ (requests.count[c] > 0 /\ requests'.count[c] # requests.count[c] =>
                  /\ requests'.count[c] = requests.count[c] + 1
                  /\ attempt'[c] = requests.count[c]
                  /\ now >= requests.sentAt[c] + retry_delay * (2 ^ (attempt'[c] - 1)))
            /\ (cpc[c] = "backoff" /\ attempt[c] = max_retries - 1 /\ cpc'[c] # "backoff" =>
                  /\ cpc'[c] = "returned"
                  /\ cresult'[c] = Returned(<<>>)
                  /\ requests' = requests)
       ]_vars

C8_Witness ==
    /\ tpOnly
    /\ \E c \in Callers :
         /\ cpc[c] = "returned"
         /\ coutcome[c] = "429"
         /\ requests.count[c] = max_retries
         /\ requests.sentAt[c] >= retry_delay + 2 * retry_delay
         /\ cresult[c] = Returned(<<>>)

\* C9: search_flights of either provider raises nothing: whatever the provider
\* did (any status, a network error, a timeout, a body that cannot be parsed)
\* the call ends by returning a list, and the list is empty unless the last
\* answer was a 200.
C9_NeverRaises ==
    \A c \in Callers :
        /\ cresult[c].kind \in {"none", "list"}
        /\ cpc[c] = "returned" <=> cresult[c].kind = "list"
        /\ cpc[c] = "returned" /\ coutcome[c] # "ok" => cresult[c].flights = <<>>

C9_Witness ==
    \E c \in Callers :
        /\ cpc[c] = "returned"
        /\ coutcome[c] = "exception"
        /\ requests.count[c] > 0
        /\ cresult[c] = Returned(<<>>)

----------------------------------------------------------------------------
(* Claims on the price ledger's statistics and on deal detection *)

\* the rows a query (origin, destination, scope) matches, as a bag
Hit(o, d, scope) == Matching(price_history, o, d, scope[1], scope[2])

\* how many rows of bag b have a price below v, and at most v
Below(b, v) == BagCardinality([ r \in { x \in BagToSet(b) : x.price < v } |-> b[r] ])
AtMost(b, v) == BagCardinality([ r \in { x \in BagToSet(b) : x.price <= v } |-> b[r] ])

\* the k-th smallest price of bag b, counting from 1
Kth(b, k) ==
    CHOOSE v \in { r.price : r \in BagToSet(b) } : Below(b, v) < k /\ k <= AtMost(b, v)

\* the prices of the rows of bag b
PricesOf(b) == { r.price : r \in BagToSet(b) }

\* C11: the median a query returns is absent when no row matches; otherwise,
\* with n matching rows, it is the middle one of the prices in ascending order
\* when n is odd and the mean of the two central ones when n is even; five rows
\* priced 100..500 give 300 and four rows priced 100..400 give 250.
C11_MedianOfMatching ==
    probe.op = "median" =>
        LET b == Hit(probe.origin, probe.destination, probe.scope)
            n == BagCardinality(b)
            m == probe.result
        IN  /\ (n = 0) = (m = NoPrice)
            /\ (n > 0 /\ n % 2 = 1) =>
                  (m[2] > 0 /\ m[1] = Kth(b, (n + 1) \div 2) * m[2])
            /\ (n > 0 /\ n % 2 = 0) =>
                  (m[2] > 0 /\ 2 * m[1] = (Kth(b, n \div 2) + Kth(b, (n \div 2) + 1)) * m[2])
            /\ (n = 5 /\ PricesOf(b) = {100, 200, 300, 400, 500}) => m[1] = 300 * m[2]
            /\ (n = 4 /\ PricesOf(b) = {100, 200, 300, 400}) => m[1] = 250 * m[2]

\* four rows priced 100, 200, 300, 400 match and the median returned is 250
C11_Witness ==
    /\ probe.op = "median"
    /\ LET b == Hit(probe.origin, probe.destination, probe.scope)
       IN  BagCardinality(b) = 4 /\ PricesOf(b) = {100, 200, 300, 400}
    /\ probe.result[1] = 250 * probe.result[2]

\* what detect_deals is specified to decide for flight f against the ledger
\* and the configuration the detector holds
Exempt(f) == f.destination \in asia_destinations /\ f.has_stopover
PassesCap(f) == Exempt(f) \/ f.price <= cfg.max_price
CountFor(f) ==
    get_observations_count(price_history, f.origin, f.destination,
                           f.departure_date.month, f.departure_date.year)
EnoughHistory(f) == CountFor(f) >= cfg.min_observations
MedianFor(f) ==
    get_median_price(price_history, f.origin, f.destination,
                     f.departure_date.month, f.departure_date.year)
\* (1 - price/median) * 100 >= discountThreshold * 100
Qualifies(f) ==
    /\ MedianFor(f) # NoPrice
    /\ FracGE(DiscountPercentage(f.price, MedianFor(f)), cfg.discount_threshold_pct)
\* the call returned a list holding one Deal, for flight f
EmittedFor(f) ==
    /\ ~probe.raised
    /\ Len(probe.deals) = 1
    /\ probe.deals[1].flight = f

\* C12: a round-trip flight that passes the price-cap and observation-count
\* checks is emitted as a deal if and only if its discount against the median,
\* (1 - price/median) * 100, is at least discountThreshold * 100 (inclusive).
C12_ThresholdInclusive ==
    (probe.op = "detect" /\ is_round_trip(probe.flight)
        /\ PassesCap(probe.flight) /\ EnoughHistory(probe.flight))
    => (EmittedFor(probe.flight) <=> Qualifies(probe.flight))

\* C13: detect_deals emits no deal for a flight whose route and departure month
\* have fewer than minObservations recorded observations; once the count reaches
\* minObservations, a flight that passes the cap and the discount threshold is
\* emitted.
C13_CountGating ==
    (probe.op = "detect" /\ is_round_trip(probe.flight)) =>
        /\ ~EnoughHistory(probe.flight) => (~probe.raised /\ probe.deals = <<>>)
        /\ (EnoughHistory(probe.flight) /\ PassesCap(probe.flight) /\ Qualifies(probe.flight))
              => EmittedFor(probe.flight)

\* C14: a flight to an exempt destination with a stopover, priced above maxPrice,
\* is emitted when the discount and observation thresholds are met; any other
\* flight priced above maxPrice is never emitted.
C14_CapWaiver ==
    (probe.op = "detect" /\ is_round_trip(probe.flight)
        /\ probe.flight.price > cfg.max_price) =>
        /\ (Exempt(probe.flight) /\ EnoughHistory(probe.flight) /\ Qualifies(probe.flight))
              => EmittedFor(probe.flight)
        /\ ~Exempt(probe.flight) => probe.deals = <<>>

\* C15: after NumObservations observations of 300 for CDG -> NYC departing in
\* June 2024 have been recorded, detection on one flight of 100 for the same
\* route and month returns exactly one Deal, for that flight, with a discount
\* of 200/3 (about 66.7, at least 50) and an observation count of
\* NumObservations.
C15_EndToEnd ==
    (probe.op = "detect" /\ ncalls = NumObservations) =>
        /\ EmittedFor(probe.flight)
        /\ probe.flight.price = 100
        /\ LET q == probe.deals[1].discount_percentage
           IN  FracGE(q, 50) /\ 3 * q[1] = 200 * q[2]
        /\ probe.deals[1].observations_count = NumObservations

\* C16: every Deal detect_deals returns, under every configuration, has a
\* discount of at least discountThreshold * 100 and, unless its destination is
\* in the exempt set and the flight has a stopover, a price of at most maxPrice.
C16_ReturnedDealsValid ==
    probe.op = "detect" =>
        \A i \in 1..Len(probe.deals) :
            LET deal == probe.deals[i]
            IN  /\ FracGE(deal.discount_percentage, cfg.discount_threshold_pct)
                /\ deal.discount_percentage
                      = DiscountPercentage(deal.flight.price, deal.usual_price)
                /\ (~Exempt(deal.flight) => deal.flight.price <= cfg.max_price)

\* under a threshold of 75 % and a cap of 100 a deal is returned
C16_Witness ==
    /\ probe.op = "detect"
    /\ probe.deals # <<>>
    /\ cfg.discount_threshold_pct = 75
    /\ cfg.max_price = 100

\* C17: constructing a Deal fails exactly when its discount is below
\* discountThreshold * 100 of the configuration the detector uses, or when the
\* flight is not exempt (destination in the configured exempt set, with a
\* stopover) and its price is above the configured maxPrice; otherwise it
\* succeeds.
C17_DealValidatesConfigured ==
    probe.op = "deal" =>
        (probe.raised <=>
            \/ ~FracGE(probe.discount_percentage, cfg.discount_threshold_pct)
            \/ (~Exempt(probe.flight) /\ probe.flight.price > cfg.max_price))

----------------------------------------------------------------------------
(* Claims on the record of notified deals *)

\* the records of notified_deals stored under the fingerprint of flight f
RecordsOf(f) == { r \in notified_deals : r.flight_hash = to_hash(f) }

SixFields(f) ==
    <<f.origin, f.destination, f.departure_date, f.return_date, f.price, f.airline>>

\* C19: two flights have the same fingerprint if and only if they agree on
\* origin, destination, departure date, return date (or one-way), price and
\* airline; is_deal_notified is true for a flight exactly when a flight agreeing
\* with it on these six fields was marked, so a change of price or airline alone
\* is not notified and a change of any other field is.
C19_FingerprintFields ==
    /\ \A f, g \in marked \cup (IF probe.op = "none" THEN {} ELSE {probe.flight}) :
          (to_hash(f) = to_hash(g)) <=> (SixFields(f) = SixFields(g))
    /\ probe.op = "is_notified" =>
          (probe.result <=> \E g \in marked : SixFields(g) = SixFields(probe.flight))

\* the flight of the test was marked and is_deal_notified answers false for the
\* same flight with another airline
C19_Witness ==
    /\ probe.op = "is_notified"
    /\ ~probe.result
    /\ DedupBase \in marked
    /\ probe.flight = [DedupBase EXCEPT !.airline = "BA"]

\* C20: a record of notified_deals is permanent: no step deletes it or changes
\* its price, usual price or discount, so is_deal_notified stays true for its
\* fingerprint.
C20_RecordPermanent ==
    [][\A r \in notified_deals : r \in notified_deals']_vars

----------------------------------------------------------------------------
(* Claims on the date-pair generator *)

\* the (departure, return) pair at position i of the returned list is inside the
\* configured window and its stay is one of the configured stay lengths
PairOk(i) ==
    LET departure == gen.date_pairs[i][1]
        return == gen.date_pairs[i][2]
        stay == return - departure
    IN  /\ return > departure
        /\ stay >= cfg.min_stay_days
        /\ stay <= Min(cfg.max_stay_days, 14)
        /\ \E j \in 0..14 : stay = cfg.min_stay_days + j * cfg.stay_days_step
        /\ departure >= gen.today + cfg.min_days_from_now
        /\ departure <= gen.today + cfg.max_days_from_now
        /\ return >= gen.today + cfg.min_days_from_now
        /\ return <= gen.today + cfg.max_days_from_now

SameListAgain ==
    (gen.pc = "returned" /\ gen.previous.pc = "returned" /\ gen.previous.today = gen.today)
        => gen.date_pairs = gen.previous.date_pairs

\* C22 as the specification states it: for every configuration a call of the
\* generator terminates by returning its list, and a second call on the same
\* day returns the same list.
C22_Terminates ==
    /\ (gen.pc = "loop") ~> (gen.pc = "returned")
    /\ []SameListAgain

\* C22, amended: a call terminates by returning its list for every
\* configuration whose dateStep is at least 1 and whose stayStep is not 0, and a
\* second call on the same day returns the same list.
C22_TerminatesForPositiveStep ==
    /\ (gen.pc = "loop" /\ cfg.date_step_days >= 1 /\ cfg.stay_days_step # 0)
          ~> (gen.pc = "returned")
    /\ []SameListAgain

\* a second call on the same day has returned a list that is not empty
C22_Witness ==
    /\ gen.pc = "returned"
    /\ gen.calls = 2
    /\ gen.previous.pc = "returned"
    /\ gen.previous.today = gen.today
    /\ gen.date_pairs # <<>>


----------------------------------------------------------------------------
(* Claims on run() and stop() *)

\* C23: when a scan cycle raises, run() does not end: the exception is caught,
\* the sleep between cycles takes place with the loop still alive, and the next
\* cycle starts unless stop() has been called meanwhile.
C23_CycleExceptionCaught ==
    /\ [](caught => phase = "interval" /\ cleanups = 0)
    /\ [][caught' /\ ~caught => running' = running]_vars
    /\ [][caught /\ ~caught' => phase' = "loop" /\ running' = running]_vars
    /\ [](phase = "loop" /\ running => ENABLED StartCycle)
    /\ caught ~> (phase = "scan" \/ ~running)

\* a cycle has raised while run() was not asked to stop
C23_Witness == caught /\ running /\ phase = "interval"


InFlight(t) == tpc[t] \in {"route", "store", "commit", "pace"}

\* C24: stop() only clears the flag: the tasks of the current cycle are left as
\* they are and the scan phase ends only when every task has finished; no scan
\* cycle starts once the flag is cleared; run() then ends, and it has called
\* cleanup() exactly once when it does.
C24_StopCooperative ==
    /\ [][running /\ ~running' =>
            /\ phase' = phase
            /\ <<tpc, tflights, ti, semaphore>>' = <<tpc, tflights, ti, semaphore>>]_vars
    /\ [][phase = "scan" /\ phase' # "scan" => \A t \in TaskIds : tpc[t] = "done"]_vars
    /\ [][~running /\ phase # "scan" => phase' # "scan"]_vars
    /\ [](cleanups = IF phase = "stopped" THEN 1 ELSE 0)
    /\ (~running /\ phase # "idle") ~> (phase = "stopped")

\* stop() has been called while a task of the cycle was in flight
C24_Witness == ~running /\ phase = "scan" /\ \E t \in TaskIds : InFlight(t)


----------------------------------------------------------------------------
(* Claims on the parsing of a provider response *)

\* the offer lacks a field, or a field of it cannot be read
Malformed(offer) ==
    \/ offer.price.kind # "number"
    \/ offer.airline.kind # "text"
    \/ offer.departure_at.kind # "iso"
    \/ offer.return_at.kind # "iso"

\* the offers of a response that are complete and within the price asked for
WellFormedOffers(data, max_price) ==
    SelectSeq(data, LAMBDA offer :
        ~Malformed(offer) /\ ~(max_price # 0 /\ offer.price.value > max_price))

\* C25: the flights parsed from a response are those of its well-formed offers,
\* one each and in order: an offer with a missing or malformed price, airline or
\* date yields no observation and costs no other offer its observation.
C25_MalformedOfferSkipped ==
    probe.op = "parse" =>
        LET good == WellFormedOffers(probe.data, probe.max_price)
        IN  /\ Len(probe.result) = Len(good)
            /\ \A i \in 1..Len(good) :
                 /\ probe.result[i].price = good[i].price.value
                 /\ probe.result[i].airline = good[i].airline.text
                 /\ probe.result[i].departure_date = good[i].departure_at.date
                 /\ probe.result[i].return_date = good[i].return_at.date


----------------------------------------------------------------------------
(* Claims on the provider client's quota estimate *)

Sends(c) == requests'.count[c] > requests.count[c]

\* C26: a caller that reaches the request with the quota estimate at or below
\* the low-water mark pauses for wait_time first and resets the estimate to its
\* default when the pause ends, so that no request of any caller is sent while
\* the estimate is at or below the mark.
C26_LowQuotaPause ==
    [][tpOnly => \A c \in Callers :
          /\ Sends(c) => rate_limit_remaining' > rate_limit_low
          /\ (Sends(c) /\ rate_limit_remaining <= rate_limit_low) =>
                /\ cpc[c] = "quota"
                /\ now >= wake[c]
                /\ rate_limit_remaining' = rate_limit_default
          /\ (cpc[c] # "quota" /\ cpc'[c] = "quota") =>
                /\ rate_limit_remaining <= rate_limit_low
                /\ wake'[c] = now + wait_time
                /\ ~Sends(c)]_vars

\* a caller has sent its request after the pause, while another caller's
\* response had brought the estimate down to the mark
C26_Witness ==
    /\ tpOnly
    /\ \E c \in Callers : /\ cpc[c] = "get"
                          /\ requests.count[c] = 1
                          /\ requests.sentAt[c] >= wait_time
    /\ rate_limit_remaining = rate_limit_default


----------------------------------------------------------------------------
(* Claims on the order of the ledger's writes *)

\* the table that holds one row for each key among the flights S
LedgerOf(S) == SetToBag({ Row(f) : f \in S })

\* C27: whatever the order and the number of the store_price calls, also for
\* flights that share a uniqueness key, price_history is the table determined
\* by the set of flights stored, and so are the count and the median of the
\* route, for the month and over all months.
C27_PersistenceCommutative ==
    /\ price_history = LedgerOf(recorded)
    /\ \A scope \in {<<6, 2024>>, <<7, 2024>>, <<NoFilter, NoFilter>>} :
         /\ get_observations_count(price_history, "CDG", "LON", scope[1], scope[2])
              = Cardinality({ UniqueKey(Row(f)) : f \in
                    { g \in recorded : /\ scope[1] # NoFilter => g.departure_date.month = scope[1]
                                       /\ scope[2] # NoFilter => g.departure_date.year = scope[2] } })
         /\ get_median_price(price_history, "CDG", "LON", scope[1], scope[2])
              = get_median_price(LedgerOf(recorded), "CDG", "LON", scope[1], scope[2])

\* two flights with one key have been stored, and a third fare after them
C27_Witness ==
    /\ \E f, g \in recorded : f # g /\ UniqueKey(Row(f)) = UniqueKey(Row(g))
    /\ BagCardinality(price_history) = 3
    /\ probe.op = "store_price" /\ ~probe.failed


----------------------------------------------------------------------------
(* Claims on the order of detection and on one-way fares *)

\* the flight passes every check of detect_deals
PassesChecks(f) ==
    is_round_trip(f) /\ PassesCap(f) /\ EnoughHistory(f) /\ Qualifies(f)

RECURSIVE FlightsOf(_)
FlightsOf(ds) == IF ds = <<>> THEN <<>> ELSE <<Head(ds).flight>> \o FlightsOf(Tail(ds))

\* C28: detect_deals returns, and the flights of the deals it returns are the
\* flights of its input that pass the checks, each as often as it occurs and
\* in the order of the input.
C28_DealsInInputOrder ==
    probe.op = "detect_list" =>
        /\ ~probe.raised
        /\ FlightsOf(probe.deals) = SelectSeq(probe.flights, PassesChecks)


OneWay(f) == f.return_date = NoDate

----------------------------------------------------------------------------
(* Claims on the gate of the scan tasks *)

\* C30: a task gives its slot back in the step that ends its sleep of
\* request_delay, with its provider call returned and its store loop finished;
\* the free slots grow in no other step of the scan, and the slots free and
\* held always add up to the width, so a held slot goes to no other task.
C30_SlotHeldThroughPace ==
    /\ [][\A t \in TaskIds : (InFlight(t) /\ ~InFlight(t)') =>
            /\ tpc[t] = "pace"
            /\ ti[t] > Len(tflights[t])
            /\ tpc'[t] = "done"
            /\ semaphore' = semaphore + 1]_vars
    /\ [][(phase = "scan" /\ semaphore' > semaphore) =>
            \E t \in TaskIds : tpc[t] = "pace" /\ tpc'[t] = "done"]_vars
    /\ [](phase = "scan" => semaphore >= 0 /\ semaphore + Cardinality(Holders) = width)

\* with one slot, a task sleeps after storing its flight while the other waits
C30_Witness ==
    /\ phase = "scan"
    /\ width = 1
    /\ semaphore = 0
    /\ \E t, u \in TaskIds : /\ tpc[t] = "pace"
                             /\ Len(tflights[t]) = 1
                             /\ tlost[t] = {}
                             /\ tpc[u] = "wait"

----------------------------------------------------------------------------
(* Claims on what detection finds in the ledger *)

\* the count and median queries of f's route and departure period select the row
\* store_price writes for f
Counted(ph, f) ==
    \E r \in BagToSet(Matching(ph, f.origin, f.destination,
                               f.departure_date.month, f.departure_date.year)) :
        UniqueKey(r) = UniqueKey(Row(f))

----------------------------------------------------------------------------
(* Claims on the pacing block of the provider client *)

\* caller c is inside the async with self._request_lock block, suspended in its
\* asyncio.sleep
InCritical(c) == cpc[c] = "pace"

\* the step in which caller c writes self._last_request_time
Stamps(c) == cpc[c] \in {"start", "lock", "pace"} /\ cpc'[c] \in {"quota", "get"}

\* C32: the pacing block of search_flights is mutually exclusive: at most one
\* caller at a time is between its read of _last_request_time and its stamp, the
\* others wait for the lock; the sleep is max(0, min_delay - (now - last)); and
\* every stamp is at least min_delay (0.25 s) after the stamp before it.
C32_PacingExclusive ==
    /\ [](tpOnly =>
            /\ Cardinality({ c \in Callers : InCritical(c) }) <= 1
            /\ \A c \in Callers : InCritical(c) <=> lockHolder = c
            /\ \A c \in Callers :
                 InCritical(c) => wake[c] = last_request_time + min_delay)
    /\ [][tpOnly => \A c \in Callers :
            /\ (Stamps(c) =>
                  /\ lockHolder \in {0, c}
                  /\ \A d \in Callers \ {c} : ~InCritical(d) /\ ~Stamps(d)
                  /\ last_request_time' = now
                  /\ now >= last_request_time + min_delay
                  /\ lockHolder' = 0)
            /\ (cpc[c] \in {"start", "lock"} /\ cpc'[c] = "pace" =>
                  /\ lockHolder = 0
                  /\ now - last_request_time < min_delay
                  /\ last_request_time' = last_request_time)
            /\ (last_request_time' # last_request_time => \E d \in Callers : Stamps(d))
       ]_vars

\* a caller sleeps inside the block for the rest of min_delay after the stamp
\* of another caller, whose request has been sent
C32_Witness ==
    /\ tpOnly
    /\ \E c, d \in Callers :
         /\ c # d
         /\ InCritical(c)
         /\ lockHolder = c
         /\ requests.count[d] > 0
         /\ last_request_time = min_delay
         /\ now < wake[c]

----------------------------------------------------------------------------
(* Claims on the scope of the aggregate queries *)

\* the flights stored so far that are of route (o, d) and depart in the month
\* and year of the scope
RecordedIn(o, d, scope) ==
    { f \in recorded :
        /\ f.origin = o /\ f.destination = d
        /\ scope[1] # NoFilter => f.departure_date.month = scope[1]
        /\ scope[2] # NoFilter => f.departure_date.year = scope[2] }

\* C33: a count, median or average query for a route and a (month, year)
\* answers from exactly the rows of that route whose departure month and year
\* are those: the count is the number of distinct keys among the observations
\* stored for the route and period, the median and the average are those of
\* these rows alone, and when there is none the count is 0 and the median and
\* the average are absent, whatever the route holds for other periods.
C33_ScopedQueriesExact ==
    probe.op \in {"count", "median", "average"} =>
        LET S == RecordedIn(probe.origin, probe.destination, probe.scope)
            keys == { UniqueKey(Row(f)) : f \in S }
            own == LedgerOf(S)
        IN  /\ probe.op = "count" => probe.result = Cardinality(keys)
            /\ probe.op = "median" =>
                 /\ probe.result = get_median_price(own, probe.origin, probe.destination,
                                                    NoFilter, NoFilter)
                 /\ (keys = {}) = (probe.result = NoPrice)
            /\ probe.op = "average" =>
                 /\ probe.result = get_average_price(own, probe.origin, probe.destination,
                                                     NoFilter, NoFilter)
                 /\ (keys = {}) = (probe.result = NoPrice)
                 /\ keys # {} => probe.result[2] = Cardinality(keys)

\* the route holds rows of June and July 2024 and the median asked for June 2025
\* is absent
C33_Witness ==
    /\ probe.op = "median"
    /\ probe.origin = "CDG" /\ probe.destination = "LON"
    /\ probe.scope = <<6, 2025>>
    /\ probe.result = NoPrice
    /\ get_observations_count(price_history, "CDG", "LON", 6, 2024) = 3
    /\ get_observations_count(price_history, "CDG", "LON", 7, 2024) = 1
    /\ Cardinality(recorded) > 4

----------------------------------------------------------------------------
(* Claims on the reach of a storage failure *)

\* C34: a storage failure stays with the operation that failed. When the
\* store_price of one observation fails, nothing is raised into scan_route: the
\* task keeps its list, goes on to its next observation, and every observation
\* of the task whose own store_price did not fail is in the ledger when the store
\* loop ends. When the mark of one deal fails or not, the loop goes on to the
\* next deal, and the notification loop ends only after the last deal.
C34_StorageFailureConfined ==
    /\ [][\A t \in TaskIds :
            (tlost'[t] # tlost[t] /\ tlost[t] \subseteq tlost'[t]) =>
                /\ tlost'[t] = tlost[t] \cup {ti[t]}
                /\ phase' = "scan"
                /\ traised' = traised
                /\ tflights' = tflights
                /\ price_history' = price_history
                /\ ti'[t] = ti[t] + 1
                /\ tpc'[t] = IF ti[t] < Len(tflights[t]) THEN "store" ELSE "pace"
                /\ \A u \in TaskIds \ {t} : tpc'[u] = tpc[u] /\ ti'[u] = ti[u]]_vars
    /\ [](\A t \in TaskIds :
            (phase = "scan" /\ tpc[t] \in {"pace", "done"} /\ ~traised[t]) =>
                \A i \in 1..Len(tflights[t]) :
                    i \notin tlost[t] => Counted(price_history, tflights[t][i]))
    /\ [](\A t \in TaskIds :
            (phase = "scan" /\ tpc[t] = "store") =>
                ENABLED StoreExecute(t) \/ dbWriter # 0)
    /\ [][npc = "mark" /\ npc' # "mark" =>
            /\ phase' = "notify"
            /\ deals' = deals
            /\ ni' = ni + 1
            /\ npc' = "check"]_vars
    /\ [][phase = "notify" /\ phase' # "notify" => ni > Len(deals) /\ npc = "check"]_vars
    /\ [](phase = "notify" /\ npc = "check" /\ ni <= Len(deals) => ENABLED NotifyCheck)

\* both tasks were answered with two offers; the store of the first offer failed
\* in both and the second offer is in the ledger; detection has built two deals;
\* the first was sent, its mark failed, and the loop stands at the second
C34_Witness ==
    /\ phase = "notify"
    /\ Len(all_flights) = 2 * Len(tasks)
    /\ ~Counted(price_history, all_flights[1])
    /\ Counted(price_history, all_flights[2])
    /\ Len(deals) = 2
    /\ ni = 2 /\ npc = "check"
    /\ lastSend = "ok"
    /\ ~is_deal_notified(notified_deals, to_hash(deals[1].flight))

----------------------------------------------------------------------------
(* Claims on the list the date-pair generator returns *)

\* the k-th departure and its j-th stay, counted from 0
Departure(k) == gen.today + cfg.min_days_from_now + k * cfg.date_step_days
StayOf(j) == cfg.min_stay_days + j * cfg.stay_days_step

\* the indexes of the departures and of the stays that can lie inside the
\* window and under the cap of 14 days when the steps are at least 1
DepartureIndexes == 0..(cfg.max_days_from_now - cfg.min_days_from_now)
StayIndexes == 0..(14 - cfg.min_stay_days)

\* departure k with stay j is a pair the generator is specified to return
Listed(k, j) ==
    /\ Departure(k) <= gen.today + cfg.max_days_from_now
    /\ StayOf(j) <= Min(cfg.max_stay_days, 14)
    /\ Departure(k) + StayOf(j) <= gen.today + cfg.max_days_from_now

\* the listed pairs, departure by departure and stay by stay
ListedPairs ==
    LET nK == Cardinality(DepartureIndexes)
        nJ == Cardinality(StayIndexes)
        grid == [ n \in 1..(nK * nJ) |-> <<(n - 1) \div nJ, (n - 1) % nJ>> ]
        kept == SelectSeq(grid, LAMBDA kj : Listed(kj[1], kj[2]))
    IN  [ n \in 1..Len(kept) |->
            <<Departure(kept[n][1]), Departure(kept[n][1]) + StayOf(kept[n][2])>> ]

\* the returned list holds exactly the listed pairs, each once and in that order
ExactList == gen.date_pairs = ListedPairs

----------------------------------------------------------------------------
(* Claims on the termination of a cycle's fan-out *)

\* C36: with every provider request answered (or failed) and every sleep ended,
\* the fan-out of a scan cycle terminates: while it runs some task can always
\* take a step (neither the semaphore nor _request_lock is waited for in a
\* circle: the holder of the lock holds a slot and only sleeps), every task
\* gets a slot and later gives it back, and when the fan-out ends every slot of
\* max_concurrent_requests is free, the lock is free and nobody waits for it.
C36_FanOutTerminates ==
    /\ [](phase = "scan" => ENABLED NextCycle)
    /\ [](lockHolder # 0 =>
            /\ phase = "scan"
            /\ tpc[lockHolder] = "route"
            /\ cpc[lockHolder] = "pace")
    /\ [](\A t \in TaskIds : cpc[t] = "lock" <=> \E i \in 1..Len(lockWaiters) : lockWaiters[i] = t)
    /\ (phase = "scan") ~> (phase = "detect")
    /\ \A t \in TaskIds :
         /\ (phase = "scan" /\ tpc[t] = "wait") ~> (tpc[t] = "route")
         /\ (phase = "scan" /\ tpc[t] = "route") ~> (tpc[t] = "done")
    /\ [][phase = "scan" /\ phase' # "scan" =>
            /\ phase' = "detect"
            /\ \A t \in TaskIds : tpc[t] = "done"
            /\ semaphore' = width
            /\ lockHolder' = 0
            /\ lockWaiters' = <<>>]_vars
    /\ [](phase = "detect" => semaphore = width /\ lockHolder = 0 /\ lockWaiters = <<>>)

\* the fan-out has ended with one slot for two tasks: both calls of
\* search_flights have returned an offer, the second after a retry or a pause,
\* and the slot and the lock are free
C36_Witness ==
    /\ phase = "detect"
    /\ width = 1
    /\ semaphore = width
    /\ lockHolder = 0 /\ lockWaiters = <<>>
    /\ \A t \in TaskIds : cpc[t] = "returned" /\ cresult[t].flights # <<>>
    /\ Len(all_flights) = Len(tasks)
    /\ rate_limit_remaining # rate_limit_default


----------------------------------------------------------------------------
(* Claims on the exceptions of detection *)

\* C37: detect_deals never raises: under every configuration and for every
\* list, a flight that passes the detector's price-cap, observation-count and
\* discount checks is accepted by the Deal constructor, so that no flight of
\* the list ends the call for the others.
C37_DetectNeverRaises ==
    probe.op = "detect_list" =>
        /\ \A i \in 1..Len(probe.flights) :
             PassesChecks(probe.flights[i]) =>
                DealPostInit(probe.flights[i],
                             DiscountPercentage(probe.flights[i].price,
                                                MedianFor(probe.flights[i])))
        /\ ~probe.raised


----------------------------------------------------------------------------
(* Claims on the fallback of the usual price *)

\* the median of the whole route, all months and years together
RouteMedianFor(f) ==
    get_median_price(price_history, f.origin, f.destination, NoFilter, NoFilter)

\* detect_deals reaches, for flight f, its second call of get_median_price: the
\* flight is a round trip, passes the cap and the count, and the median of its
\* month and year is None
FallbackTaken(f) ==
    is_round_trip(f) /\ PassesCap(f) /\ EnoughHistory(f) /\ MedianFor(f) = NoPrice

\* C38: with min_observations >= 1 and no failing read, a count of the month
\* and year that reaches min_observations comes with a median of that month
\* and year, detect_deals never asks for the median of the whole route, and
\* the usual_price of every Deal it returns is the median of the flight's own
\* departure month and year.
C38_NoUnscopedFallback ==
    cfg.min_observations >= 1 =>
        /\ \A f \in Candidates : EnoughHistory(f) => MedianFor(f) # NoPrice
        /\ probe.op = "detect" =>
              /\ ~FallbackTaken(probe.flight)
              /\ \A i \in 1..Len(probe.deals) :
                    /\ probe.deals[i].usual_price = MedianFor(probe.deals[i].flight)
                    /\ probe.deals[i].observations_count >= cfg.min_observations

\* a deal is returned for a flight of June while the ledger also holds a fare
\* of July, so that the median of the whole route is another price
C38_Witness ==
    /\ cfg.min_observations >= 1
    /\ probe.op = "detect"
    /\ Len(probe.deals) = 1
    /\ RouteMedianFor(probe.flight) # MedianFor(probe.flight)
    /\ probe.deals[1].usual_price = MedianFor(probe.flight)

----------------------------------------------------------------------------
(* Claims on the price cap of the ledger *)

\* destination d is outside the exempt (Asia) set scan_route reads
NonExempt(d) == d \notin asia_destinations

\* the median <<n, d>> is at most k
FracLE(q, k) == q[1] <= k * q[2]

\* C39: in a ledger that scan cycles alone have written, every observation of
\* a destination outside the exempt set has a price of at most max_price, since
\* the offers above it are left out before they are stored; so the median of
\* such a route, for the month or for the whole route, is at most max_price,
\* and every deal for it has a price of at most
\* max_price * (1 - discount_threshold).
C39_LedgerUnderCap ==
    /\ \A r \in BagToSet(price_history) :
         NonExempt(r.destination) => r.price <= cfg.max_price
    /\ \A t \in TaskIds :
         /\ \A i \in 1..Len(tflights[t]) :
              NonExempt(tflights[t][i].destination) => tflights[t][i].price <= cfg.max_price
         /\ \A i \in 1..Len(tcapped[t]) :
              /\ tcapped[t][i].price > cfg.max_price
              /\ ~BagIn(Row(tcapped[t][i]), price_history)
    /\ \A i \in 1..Len(config.origins), j \in 1..Len(config.destinations) :
         \A scope \in { <<6, 2024>>, <<NoFilter, NoFilter>> } :
            LET median == get_median_price(price_history, config.origins[i],
                                           config.destinations[j], scope[1], scope[2])
            IN  (NonExempt(config.destinations[j]) /\ median # NoPrice)
                    => FracLE(median, cfg.max_price)
    /\ \A i \in 1..Len(deals) :
         NonExempt(deals[i].flight.destination) =>
            /\ FracLE(deals[i].usual_price, cfg.max_price)
            /\ 100 * deals[i].flight.price
                  <= cfg.max_price * (100 - cfg.discount_threshold_pct)

====
